---- MODULE Spec2Model ----
(***************************************************************************)
(* Verification model of the N Lobby MCP server (minagishl/nlobby-mcp):    *)
(* the session store (NLobbyApi.setCookies, NextAuthHandler, TRPCClient),  *)
(* the remote procedure client (TRPCClient.call and the endpoint sweep)    *)
(* and the news extraction cascade (NLobbyApi.parseNewsFromHtml, getNews). *)
(***************************************************************************)
EXTENDS Integers, Sequences, FiniteSets, TLC

VARIABLES
    httpCookie,       \* NLobbyApi.httpClient.defaults.headers.Cookie
    session,          \* NLobbyApi.session (TRUE when an NLobbySession is held)
    nextAuthCookies,  \* NextAuthHandler.cookies
    allCookies,       \* TRPCClient.allCookies
    lastApplied,      \* history: the blob of the last setCookies call that ran to completion
    httpPending,      \* a request of the HTTP client is in flight
    lastOp,           \* observation of the last step: its input, what it sent, how it ended
    requestId,        \* TRPCClient.requestId
    callPc,           \* per caller: where its call() stands
    callLog,          \* per caller: the attempts of its call(), each with the response it got
    callOut,          \* per caller: what call() returned or threw
    sweepPc,          \* tryMultipleNewsEndpoints: idle, calling, done
    sweepTried,       \* the candidates tried so far, in order
    sweepResult,      \* what the sweep returned
    newsEntry,        \* the operation that asked for the news
    newsPc,           \* idle, fetching, strategy, parsed, finished, replied
    html,             \* the HTML fetched from /news
    clock,            \* the time at which the page is parsed
    strategyIdx,      \* the strategy parseNewsFromHtml runs next
    parseRan,         \* the strategies it has run, in order
    parseOut,         \* what it returned
    newsOut,          \* what getNews returned or threw
    reply,            \* what the operation answered
    calPc,            \* a calendar tool call: idle, waiting (a request is in flight), done
    calTool,          \* the tool called: get_calendar_events or test_calendar_endpoints
    calArgs,          \* its arguments
    calRange,         \* the dateRange the handler built
    calSent,          \* the calendar requests sent to the portal, in order
    calResp,          \* the last calendar response received
    calReply,         \* what the tool answered
    detPc,            \* a get_news_detail call: idle, fetching, marking, done
    detArgs,          \* its arguments
    detPage,          \* the push calls of the page fetched from /news/{id}
    detOut,           \* what getNewsDetail returned or threw
    detLog,           \* the requests sent and the failures logged, in order
    detReply,         \* what the tool answered
    course,           \* a course of the requiredCourse.getRequiredCourses response
    enhancedCourse,   \* the course with the computed fields
    loginPc,          \* an interactive_login call: idle, navigating, detecting, delaying, extracting, done
    loginAttempt,     \* attempt of waitForLoginCompletionWithRetry
    loginBrowser,     \* the browser: none, connected, crashed
    loginLog,         \* the detection attempts, the delays and the setCookies call, in order
    loginReply,       \* what the tool answered
    loginClosed,      \* BrowserAuth.close has been called by the tool
    setArgs,          \* the blob given to the set_cookies tool
    setReply,         \* what the set_cookies tool answered
    searchIn,         \* the object given to searchForNewsInData
    searchOut,        \* what it returned
    diagPc,           \* a diagnostic operation: idle, probing, done
    diagOp,           \* the operation: healthCheck, debugConnection, testPageContent, getCookieStatus
    diagStep,         \* the probe or request it runs next
    diagLog,          \* the probes and requests run, in order, each with how it ended
    diagOut           \* what the operation returned

sessionVars == <<httpCookie, session, nextAuthCookies, allCookies, lastApplied, httpPending, lastOp>>

callVars == <<requestId, callPc, callLog, callOut>>

sweepVars == <<sweepPc, sweepTried, sweepResult>>

newsVars == <<newsEntry, newsPc, html, clock, strategyIdx, parseRan, parseOut, newsOut, reply>>

calendarVars == <<calPc, calTool, calArgs, calRange, calSent, calResp, calReply>>

detailVars == <<detPc, detArgs, detPage, detOut, detLog, detReply>>

courseVars == <<course, enhancedCourse>>

loginVars == <<loginPc, loginAttempt, loginBrowser, loginLog, loginReply, loginClosed>>

cookieToolVars == <<setArgs, setReply>>

searchVars == <<searchIn, searchOut>>

diagVars == <<diagPc, diagOp, diagStep, diagLog, diagOut>>

toolVars == <<calendarVars, detailVars, courseVars, loginVars, cookieToolVars, searchVars, diagVars>>

\* what the actions of one tool leave alone
notCalendar == <<sessionVars, callVars, sweepVars, newsVars, detailVars, courseVars, loginVars, cookieToolVars, searchVars, diagVars>>

notDetail == <<sessionVars, callVars, sweepVars, newsVars, calendarVars, courseVars, loginVars, cookieToolVars, searchVars, diagVars>>

notCourse == <<sessionVars, callVars, sweepVars, newsVars, calendarVars, detailVars, loginVars, cookieToolVars, searchVars, diagVars>>

\* the login tool writes the session store
notLogin == <<callVars, sweepVars, newsVars, calendarVars, detailVars, courseVars, cookieToolVars, searchVars, diagVars>>

\* the set_cookies tool writes the session store
notCookieTool == <<callVars, sweepVars, newsVars, calendarVars, detailVars, courseVars, loginVars, searchVars, diagVars>>

notSearch == <<sessionVars, callVars, sweepVars, newsVars, calendarVars, detailVars, courseVars, loginVars, cookieToolVars, diagVars>>

\* the diagnostics call the remote procedure client, which counts its requests
notDiag ==
    <<callPc, callLog, callOut, sweepVars, newsVars, calendarVars, detailVars, courseVars, loginVars,
      cookieToolVars, searchVars>>

vars == <<sessionVars, callVars, sweepVars, newsVars, toolVars>>

-----------------------------------------------------------------------------
(* Cookie blobs.  A blob is the text of a Cookie header, modelled as the   *)
(* sequence of its ";"-separated segments; a segment is <<text before the  *)
(* first "=", text after it>>.  <<>> is the empty string.                  *)

NameSession == "__Secure-next-auth.session-token"

NameCsrf == "__Host-next-auth.csrf-token"

NameCallback == "__Secure-next-auth.callback-url"

NameOther == "theme"

EmptyBlob == << >>

SpaceBlob == << <<" ", "">> >>

BlankBlobs == {EmptyBlob, SpaceBlob}

Pairs ==
    { <<NameSession, "a%2Fb">>, <<NameSession, "%">>, <<NameSession, "">>,
      <<NameCsrf, "c1">>, <<NameCallback, "u1">>, <<NameOther, "o1">> }

Blobs ==
    BlankBlobs \cup { <<p>> : p \in Pairs } \cup { <<p, q>> : p \in Pairs, q \in Pairs }

NoToken == ""

NoCookies == [sessionToken |-> NoToken, csrfToken |-> NoToken, callbackUrl |-> NoToken]

\* String.prototype.trim on the segment texts of the model
Trim(s) == IF s = " " THEN "" ELSE s

\* decodeURIComponent throws URIError on a malformed escape sequence
DecodeThrows(v) == v = "%"

\* decodeURIComponent on the values of the model
decodeURIComponent(v) == IF v = "a%2Fb" THEN "a/b" ELSE v

\* encodeURIComponent on the token values of the model
encodeURIComponent(v) == IF v = "a/b" THEN "a%2Fb" ELSE v

RECURSIVE parseCookiesFrom(_, _, _)
parseCookiesFrom(blob, i, acc) ==
    IF i > Len(blob) THEN [threw |-> FALSE, cookies |-> acc]
    ELSE LET name == Trim(blob[i][1])
             value == blob[i][2]
         IN  IF name # "" /\ value # "" /\ name \in {NameSession, NameCsrf, NameCallback}
             THEN IF DecodeThrows(value)
                  THEN [threw |-> TRUE, cookies |-> acc]
                  ELSE parseCookiesFrom(blob, i + 1,
                         IF name = NameSession
                         THEN [acc EXCEPT !.sessionToken = decodeURIComponent(value)]
                         ELSE IF name = NameCsrf
                         THEN [acc EXCEPT !.csrfToken = decodeURIComponent(value)]
                         ELSE [acc EXCEPT !.callbackUrl = decodeURIComponent(value)])
             ELSE parseCookiesFrom(blob, i + 1, acc)

\* NextAuthHandler.parseCookies: [threw, cookies]
parseCookies(cookieString) == parseCookiesFrom(cookieString, 1, NoCookies)

\* a setCookies that merges the parsed tokens into the ones it holds
NextAuthSetCookiesMerging(cur, cookieString) ==
    LET p == parseCookies(cookieString)
    IN  IF p.threw THEN [threw |-> TRUE, cookies |-> cur]
        ELSE [threw |-> FALSE,
              cookies |-> [f \in DOMAIN cur |-> IF p.cookies[f] # NoToken THEN p.cookies[f] ELSE cur[f]]]

\* NextAuthHandler.setCookies: the new value of this.cookies, or a throw that leaves it
NextAuthSetCookies(cur, cookieString) ==
    LET p == parseCookies(cookieString)
    IN  IF p.threw THEN [threw |-> TRUE, cookies |-> cur]
        ELSE [threw |-> FALSE, cookies |-> p.cookies]

\* NextAuthHandler.getCookieHeader: the reduced header rebuilt from the derived tokens
getCookieHeader(c) ==
    (IF c.sessionToken # NoToken
       THEN << <<NameSession, encodeURIComponent(c.sessionToken)>> >> ELSE << >>)
    \o (IF c.csrfToken # NoToken
       THEN << <<NameCsrf, encodeURIComponent(c.csrfToken)>> >> ELSE << >>)
    \o (IF c.callbackUrl # NoToken
       THEN << <<NameCallback, encodeURIComponent(c.callbackUrl)>> >> ELSE << >>)

\* NextAuthHandler.isAuthenticated
isAuthenticated(c) == c.sessionToken # NoToken

\* NextAuthHandler.getSessionToken ("" stands for null)
getSessionToken(c) == c.sessionToken

\* the test  !cookies || cookies.trim() === ""
IsBlankString(cookies) ==
    \/ cookies = << >>
    \/ Len(cookies) = 1 /\ Trim(cookies[1][1]) = "" /\ cookies[1][2] = ""

\* TRPCClient.setAllCookies: the new value of this.allCookies
setAllCookies(cookies) == IF IsBlankString(cookies) THEN EmptyBlob ELSE cookies

\* a setCookies without the guard against an empty blob
setCookiesNoGuard(st, cookies) ==
    LET na == NextAuthSetCookies(st.auth, cookies)
    IN  IF na.threw
        THEN [http |-> cookies, auth |-> st.auth, trpc |-> st.trpc, threw |-> TRUE, applied |-> FALSE]
        ELSE [http |-> cookies, auth |-> na.cookies, trpc |-> setAllCookies(cookies),
              threw |-> FALSE, applied |-> TRUE]

\* NLobbyApi.setCookies: the store after the call, whether it threw, whether it ran to the end.
\* The header of the HTTP client is assigned before the tokens are parsed, so a throw of
\* decodeURIComponent leaves the new blob there and the old state in the other two holders.
setCookies(st, cookies) ==
    IF IsBlankString(cookies)
    THEN [http |-> st.http, auth |-> st.auth, trpc |-> st.trpc, threw |-> FALSE, applied |-> FALSE]
    ELSE LET na == NextAuthSetCookies(st.auth, cookies)
         IN  IF na.threw
             THEN [http |-> cookies, auth |-> st.auth, trpc |-> st.trpc,
                   threw |-> TRUE, applied |-> FALSE]
             ELSE [http |-> cookies, auth |-> na.cookies, trpc |-> setAllCookies(cookies),
                   threw |-> FALSE, applied |-> TRUE]

Store == [http |-> httpCookie, auth |-> nextAuthCookies, trpc |-> allCookies]

AuthExpiredTransport == "Authentication expired. Please re-authenticate."

AuthExpiredRpc == "Authentication expired. Please re-authenticate with NextAuth cookies."

ForbiddenRpc == "Access forbidden. Check your permissions or re-authenticate."

NotFoundRpc == "tRPC endpoint not found. The API may have changed."

\* HTTP statuses a response may carry; 0 stands for no response (network error)
Statuses == {0, 200, 401, 403, 404, 500}

\* an error object: its message, and the status of its .response (0 when it has none)
PlainError(msg) == [message |-> msg, response |-> 0]

AxiosError(status) == [message |-> "Request failed", response |-> status]

NoError == [message |-> "", response |-> 0]

\* NLobbyApi.setupInterceptors, request side, over the defaults of the HTTP client
TransportRequestHeaders(cookie, hasSession) ==
    [cookie |-> cookie, bearer |-> IF hasSession THEN "accessToken" ELSE "", csrf |-> ""]

\* NLobbyApi.setupInterceptors, response side: the error a failed response is rejected with
TransportResponseError(status, hasSession) ==
    IF status = 401 /\ hasSession THEN PlainError(AuthExpiredTransport) ELSE AxiosError(status)

\* TRPCClient.setupInterceptors, request side
RpcRequestHeaders(all, c) ==
    [cookie |-> IF ~IsBlankString(all) THEN all ELSE getCookieHeader(c),
     bearer |-> getSessionToken(c),
     csrf |-> c.csrfToken]

\* TRPCClient.setupInterceptors, response side: the error a failed response is rejected with
RpcResponseError(status) ==
    IF status = 401 THEN PlainError(AuthExpiredRpc)
    ELSE IF status = 403 THEN PlainError(ForbiddenRpc)
    ELSE IF status = 404 THEN PlainError(NotFoundRpc)
    ELSE AxiosError(status)

NoHeaders == [cookie |-> EmptyBlob, bearer |-> "", csrf |-> ""]

NoOp ==
    [op |-> "init", blank |-> FALSE, threw |-> FALSE, authBefore |-> FALSE, verb |-> "",
     headers |-> NoHeaders, status |-> 0, error |-> NoError]

-----------------------------------------------------------------------------
(* Remote procedure client.                                                *)

\* the operations that invoke call() concurrently, and the sweep
Callers == {"a", "b"}

AllCallers == Callers \cup {"sweep"}

MaxRequestId == 3

Methods == {"news.getUnreadNewsCount", "user.updateLastAccess"}

\* result payloads, by name: two non-empty arrays, an empty one, three objects, null, a number
Results == {"arrA", "arrB", "arrEmpty", "objItems", "objTwo", "objNone", "null", "num"}

IsArray(v) == v \in {"arrA", "arrB", "arrEmpty"}

ArrayLength(v) == IF v \in {"arrA", "arrB"} THEN 2 ELSE 0

IsObject(v) == v \in {"objItems", "objTwo", "objNone"}

\* Object.keys(v), in insertion order
ObjectKeys(v) ==
    IF v = "objItems" THEN <<"total", "items">>
    ELSE IF v = "objTwo" THEN <<"first", "second", "third">>
    ELSE IF v = "objNone" THEN <<"ok">>
    ELSE << >>

\* v[key]
Property(v, key) ==
    IF v = "objItems" /\ key = "items" THEN "arrA"
    ELSE IF v = "objTwo" /\ key = "first" THEN "arrEmpty"
    ELSE IF v = "objTwo" /\ key = "second" THEN "arrB"
    ELSE IF v = "objTwo" /\ key = "third" THEN "arrA"
    ELSE "num"

\* the result payloads answered to the callers other than the sweep
CallResults == {"arrA", "arrB"}

\* what the portal may answer: a result, an in-band error object, an HTTP error, no answer
Responses(results) ==
    { [status |-> 200, inBandError |-> FALSE, result |-> v] : v \in results }
    \cup { [status |-> 200, inBandError |-> TRUE, result |-> "null"] }
    \cup { [status |-> st, inBandError |-> FALSE, result |-> "null"] : st \in Statuses \ {200} }

NoResponse == [status |-> -1, inBandError |-> FALSE, result |-> "null"]

TrpcError == "tRPC Error [code]: message"

NoOutcome == [value |-> "null", error |-> NoError]

\* one attempt of call(): httpClient.get(url) or httpClient.post(method, request)
Attempt(verb, id, method, headers) ==
    [verb |-> verb, id |-> id, method |-> method, headers |-> headers, response |-> NoResponse]

\* an attempt fails when axios rejects (non-2xx or no response) or the body holds an error object
AttemptFailed(resp) == resp.status # 200 \/ resp.inBandError

\* the error an attempt fails with: the interceptor's for a rejection, call()'s for an error object
AttemptError(resp) ==
    IF resp.status = 200 THEN PlainError(TrpcError) ELSE RpcResponseError(resp.status)

\* TRPCClient.call up to its first await: the id is taken, the GET attempt is sent
CallBegin(c, method) ==
    /\ callPc[c] # "get" /\ callPc[c] # "post"
    /\ requestId' = requestId + 1
    /\ callPc' = [callPc EXCEPT ![c] = "get"]
    /\ callLog' = [callLog EXCEPT ![c] =
           << Attempt("GET", requestId, method, RpcRequestHeaders(allCookies, nextAuthCookies)) >>]
    /\ callOut' = [callOut EXCEPT ![c] = NoOutcome]

\* a continuation after the GET attempt that gives up on a failure instead of falling back
callAfterGetNoFallback(c, resp) ==
    LET get == [callLog[c][1] EXCEPT !.response = resp]
    IN  /\ callLog' = [callLog EXCEPT ![c] = << get >>]
        /\ IF AttemptFailed(resp)
           THEN /\ callPc' = [callPc EXCEPT ![c] = "threw"]
                /\ callOut' = [callOut EXCEPT ![c] = [value |-> "null", error |-> AttemptError(resp)]]
           ELSE /\ callPc' = [callPc EXCEPT ![c] = "returned"]
                /\ callOut' = [callOut EXCEPT ![c] = [value |-> resp.result, error |-> NoError]]

\* a continuation after the GET attempt whose POST body takes the id from the counter
callAfterGetCounterId(c, resp) ==
    LET get == [callLog[c][1] EXCEPT !.response = resp]
    IN  IF AttemptFailed(resp)
        THEN /\ callPc' = [callPc EXCEPT ![c] = "post"]
             /\ callLog' = [callLog EXCEPT ![c] =
                    << get, Attempt("POST", requestId, get.method,
                                    RpcRequestHeaders(allCookies, nextAuthCookies)) >>]
             /\ UNCHANGED callOut
        ELSE /\ callPc' = [callPc EXCEPT ![c] = "returned"]
             /\ callLog' = [callLog EXCEPT ![c] = << get >>]
             /\ callOut' = [callOut EXCEPT ![c] = [value |-> resp.result, error |-> NoError]]

\* the continuation after the GET attempt: return its result, or send the POST attempt
callAfterGet(c, resp) ==
    LET get == [callLog[c][1] EXCEPT !.response = resp]
    IN  IF AttemptFailed(resp)
        THEN /\ callPc' = [callPc EXCEPT ![c] = "post"]
             /\ callLog' = [callLog EXCEPT ![c] =
                    << get, Attempt("POST", get.id, get.method,
                                    RpcRequestHeaders(allCookies, nextAuthCookies)) >>]
             /\ UNCHANGED callOut
        ELSE /\ callPc' = [callPc EXCEPT ![c] = "returned"]
             /\ callLog' = [callLog EXCEPT ![c] = << get >>]
             /\ callOut' = [callOut EXCEPT ![c] = [value |-> resp.result, error |-> NoError]]

\* a continuation after the POST attempt that throws the error of the GET attempt
callAfterPostGetError(c, resp) ==
    LET post == [callLog[c][2] EXCEPT !.response = resp]
    IN  /\ callLog' = [callLog EXCEPT ![c] = << callLog[c][1], post >>]
        /\ IF AttemptFailed(resp)
           THEN /\ callPc' = [callPc EXCEPT ![c] = "threw"]
                /\ callOut' = [callOut EXCEPT ![c] =
                       [value |-> "null", error |-> AttemptError(callLog[c][1].response)]]
           ELSE /\ callPc' = [callPc EXCEPT ![c] = "returned"]
                /\ callOut' = [callOut EXCEPT ![c] = [value |-> resp.result, error |-> NoError]]

\* the continuation after the POST attempt: return its result, or throw its error
callAfterPost(c, resp) ==
    LET post == [callLog[c][2] EXCEPT !.response = resp]
    IN  /\ callLog' = [callLog EXCEPT ![c] = << callLog[c][1], post >>]
        /\ IF AttemptFailed(resp)
           THEN /\ callPc' = [callPc EXCEPT ![c] = "threw"]
                /\ callOut' = [callOut EXCEPT ![c] = [value |-> "null", error |-> AttemptError(resp)]]
           ELSE /\ callPc' = [callPc EXCEPT ![c] = "returned"]
                /\ callOut' = [callOut EXCEPT ![c] = [value |-> resp.result, error |-> NoError]]

CallStart ==
    /\ requestId <= MaxRequestId
    /\ \E c \in Callers, method \in Methods : CallBegin(c, method)
    /\ UNCHANGED <<sessionVars, sweepVars, newsVars, toolVars>>

GetResponse ==
    /\ \E c \in AllCallers : \E resp \in Responses(IF c = "sweep" THEN Results ELSE CallResults) :
          /\ callPc[c] = "get"
          /\ callAfterGet(c, resp)
    /\ UNCHANGED <<requestId, sessionVars, sweepVars, newsVars, toolVars>>

PostResponse ==
    /\ \E c \in AllCallers : \E resp \in Responses(IF c = "sweep" THEN Results ELSE CallResults) :
          /\ callPc[c] = "post"
          /\ callAfterPost(c, resp)
    /\ UNCHANGED <<requestId, sessionVars, sweepVars, newsVars, toolVars>>

-----------------------------------------------------------------------------
(* Endpoint-discovery sweep (NLobbyApi.tryMultipleNewsEndpoints).          *)

NumEndpoints == 3

EndpointNames == <<"news.find", "news.list", "news.get", "news.getAll", "news.findAll", "news.findMany">>

\* the first candidates of the endpoint table, in its order
Endpoints == SubSeq(EndpointNames, 1, NumEndpoints)

RECURSIVE FirstArrayKeyFrom(_, _)
FirstArrayKeyFrom(data, i) ==
    IF i > Len(ObjectKeys(data)) THEN 0
    ELSE LET v == Property(data, ObjectKeys(data)[i])
         IN  IF IsArray(v) /\ ArrayLength(v) > 0 THEN i ELSE FirstArrayKeyFrom(data, i + 1)

\* the loop body of the sweep after endpoint.method() has settled:
\* "return" with a value, "continue" with the next candidate, or "break"
sweepDecision(threw, out) ==
    IF ~threw
    THEN IF IsArray(out.value) /\ ArrayLength(out.value) > 0
         THEN [kind |-> "return", value |-> out.value]
         ELSE IF IsArray(out.value)
         THEN [kind |-> "continue", value |-> "null"]
         ELSE IF IsObject(out.value)
         THEN LET k == FirstArrayKeyFrom(out.value, 1)
              IN  IF k > 0
                  THEN [kind |-> "return", value |-> Property(out.value, ObjectKeys(out.value)[k])]
                  ELSE [kind |-> "continue", value |-> "null"]
         ELSE [kind |-> "continue", value |-> "null"]
    ELSE IF out.error.response = 401
         THEN [kind |-> "break", value |-> "null"]
         ELSE [kind |-> "continue", value |-> "null"]

SweepStart ==
    /\ sweepPc = "idle"
    /\ sweepPc' = "calling"
    /\ sweepTried' = << Endpoints[1] >>
    /\ CallBegin("sweep", Endpoints[1])
    /\ UNCHANGED <<sessionVars, sweepResult, newsVars, toolVars>>

SweepStep ==
    /\ sweepPc = "calling"
    /\ callPc["sweep"] \in {"returned", "threw"}
    /\ LET d == sweepDecision(callPc["sweep"] = "threw", callOut["sweep"])
           i == Len(sweepTried)
       IN  IF d.kind = "return"
           THEN /\ sweepPc' = "done"
                /\ sweepResult' = d.value
                /\ UNCHANGED <<sweepTried, callVars>>
           ELSE IF d.kind = "continue" /\ i < Len(Endpoints)
           THEN /\ sweepTried' = Append(sweepTried, Endpoints[i + 1])
                /\ CallBegin("sweep", Endpoints[i + 1])
                /\ UNCHANGED <<sweepPc, sweepResult>>
           ELSE /\ sweepPc' = "done"
                /\ sweepResult' = "null"
                /\ UNCHANGED <<sweepTried, callVars>>
    /\ UNCHANGED <<sessionVars, newsVars, toolVars>>

-----------------------------------------------------------------------------
(* JSON values.  Every value is a record [t, s, kids]: t is its type, s    *)
(* its text (numbers, strings, booleans), kids its entries in order, each  *)
(* <<key, value>> (the key of an array element is "").  A string whose     *)
(* text is itself parsed by the code carries, as its only entry,           *)
(* <<prefix, body>>: the digits before its first ":" ("" when it has no    *)
(* such prefix) and what JSON.parse gives for the rest (Bad: it throws).   *)

JNull == [t |-> "null", s |-> "", kids |-> << >>]

JUndefined == [t |-> "undefined", s |-> "", kids |-> << >>]

Bad == [t |-> "bad", s |-> "", kids |-> << >>]

JNum(n) == [t |-> "num", s |-> n, kids |-> << >>]

Str(x) == [t |-> "str", s |-> x, kids |-> << >>]

StrOf(x, prefix, body) == [t |-> "str", s |-> x, kids |-> << <<prefix, body>> >>]

JArr(elems) == [t |-> "arr", s |-> "", kids |-> [i \in 1..Len(elems) |-> <<"", elems[i]>>]]

JObj(entries) == [t |-> "obj", s |-> "", kids |-> entries]

Size(v) == Len(v.kids)

At(v, i) == v.kids[i][2]

Elems(v) == [i \in 1..Size(v) |-> At(v, i)]

\* key in v
Has(v, key) == v.t = "obj" /\ \E i \in 1..Size(v) : v.kids[i][1] = key

\* v[key] or v.key
Get(v, key) ==
    IF Has(v, key) THEN At(v, CHOOSE i \in 1..Size(v) : v.kids[i][1] = key) ELSE JUndefined

\* the truthiness of a value
Truthy(v) ==
    /\ v.t \notin {"null", "undefined", "bad"}
    /\ (v.t = "str" => v.s # "")
    /\ (v.t = "num" => v.s # "0")
    /\ (v.t = "bool" => v.s = "true")

\* v && typeof v === "object"
IsObjectLike(v) == v.t \in {"arr", "obj"}

\* v.toString() and `${v}`
toString(v) ==
    IF v.t \in {"str", "num", "bool"} THEN v.s
    ELSE IF v.t = "obj" THEN "[object Object]"
    ELSE IF v.t = "arr" THEN (IF Size(v) = 0 THEN "" ELSE "[array]")
    ELSE v.t

\* JSON.parse of the text of a string value, when the whole text is parsed
ParseString(v) == IF Size(v) = 1 /\ v.kids[1][1] = "" THEN At(v, 1) ELSE Bad

\* text.match(/^(\d+):(.*)/)
HasPrefix(v) == Size(v) = 1 /\ v.kids[1][1] # ""

NewsProperties == {"title", "name", "content", "publishedAt", "menuName", "createdAt", "updatedAt", "id"}

RECURSIVE searchForNewsInData(_)
RECURSIVE SearchEntriesFrom(_, _)
\* NLobbyApi.searchForNewsInData: the elements of the arrays whose first element looks like news
searchForNewsInData(obj) ==
    IF obj.t = "arr"
    THEN IF Size(obj) > 0 /\ IsObjectLike(At(obj, 1))
            /\ \E prop \in NewsProperties : Has(At(obj, 1), prop)
         THEN Elems(obj)
         ELSE << >>
    ELSE IF obj.t = "obj" THEN SearchEntriesFrom(obj, 1)
    ELSE << >>

SearchEntriesFrom(obj, i) ==
    IF i > Size(obj) THEN << >>
    ELSE searchForNewsInData(At(obj, i)) \o SearchEntriesFrom(obj, i + 1)

BaseUrl == "https://nlobby.nnn.ed.jp"

\* index.toString() and `${index + 1}` for the positions of the model
IndexString == <<"0", "1", "2", "3">>

DefaultTitle == <<"News Item 1", "News Item 2", "News Item 3", "News Item 4">>

\* a || b || ... over the named fields of an item: the first truthy one
RECURSIVE FirstTruthy(_, _)
FirstTruthy(item, keys) ==
    IF keys = << >> THEN JUndefined
    ELSE IF Truthy(Get(item, Head(keys))) THEN Get(item, Head(keys))
    ELSE FirstTruthy(item, Tail(keys))

\* a Date: built from a field of the record, or the clock at the time of the call
DateOf(text) == [src |-> "field", text |-> text, at |-> 0]

DateNow(now) == [src |-> "now", text |-> "", at |-> now]

\* the body of the map callback of transformNewsToAnnouncements (index is 0-based)
Announcement(item, index, now) ==
    LET date == FirstTruthy(item, <<"publishedAt", "createdAt", "updatedAt", "date">>)
        title == FirstTruthy(item, <<"title", "name", "subject", "heading">>)
        id == Get(item, "id")
    IN  [id |-> IF id.t \notin {"null", "undefined"} /\ toString(id) # ""
                THEN toString(id) ELSE IndexString[index + 1],
         title |-> IF Truthy(title) THEN toString(title) ELSE DefaultTitle[index + 1],
         publishedAt |-> IF Truthy(date) THEN DateOf(toString(date)) ELSE DateNow(now),
         url |-> <<BaseUrl, "/news/", IF Truthy(id) THEN toString(id) ELSE IndexString[index + 1]>>]

\* NLobbyApi.transformNewsToAnnouncements: reading a field of a null element throws TypeError
transformNewsToAnnouncements(newsData, now) ==
    IF \E i \in 1..Len(newsData) : newsData[i].t \in {"null", "undefined"}
    THEN [threw |-> TRUE, items |-> << >>]
    ELSE [threw |-> FALSE,
          items |-> [i \in 1..Len(newsData) |-> Announcement(newsData[i], i - 1, now)]]

NotFound == [found |-> FALSE, items |-> << >>]

\* return this.transformNewsToAnnouncements(found) inside a try whose catch only logs
ReturnTransformed(found, now) ==
    LET r == transformNewsToAnnouncements(found, now)
    IN  IF r.threw THEN NotFound ELSE [found |-> TRUE, items |-> r.items]

\* the validation of componentData.news in the prefixed branch of a push call
IsValidatedNews(news) ==
    /\ Truthy(news) /\ news.t = "arr" /\ Size(news) > 0
    /\ IsObjectLike(At(news, 1))
    /\ \/ Truthy(Get(At(news, 1), "id"))
       \/ Truthy(Get(At(news, 1), "title"))
       \/ Truthy(Get(At(news, 1), "microCmsId"))

\* the loop over the items of the parsed prefixed content; a throw of the transform
\* is caught outside the loop, which ends the loop
RECURSIVE ComponentScan(_, _, _)
ComponentScan(parsedContent, j, now) ==
    IF j > Size(parsedContent) THEN NotFound
    ELSE LET item == At(parsedContent, j)
         IN  IF item.t = "arr" /\ Size(item) >= 4 /\ IsObjectLike(At(item, 4))
                /\ IsValidatedNews(Get(At(item, 4), "news"))
             THEN ReturnTransformed(Elems(Get(At(item, 4), "news")), now)
             ELSE ComponentScan(parsedContent, j + 1, now)

\* the branch of a push call whose second element is a string
StringDataResult(stringData, now) ==
    IF HasPrefix(stringData)
    THEN LET parsedContent == At(stringData, 1)
         IN  IF parsedContent.t = "arr" THEN ComponentScan(parsedContent, 1, now) ELSE NotFound
    ELSE LET foundNews == searchForNewsInData(ParseString(stringData))
         IN  IF Len(foundNews) > 0 THEN ReturnTransformed(foundNews, now) ELSE NotFound

\* the body of the loop over the push calls; pushCall is what JSON.parse gives for the
\* bracketed argument of one self.__next_f.push(...) (Bad: it throws, the catch logs)
PushCallResult(pushData, now) ==
    IF pushData.t # "arr" THEN NotFound
    ELSE LET viaString == IF Size(pushData) >= 2 /\ At(pushData, 2).t = "str"
                          THEN StringDataResult(At(pushData, 2), now) ELSE NotFound
             foundNews == searchForNewsInData(pushData)
         IN  IF viaString.found THEN viaString
             ELSE IF Len(foundNews) > 0 THEN ReturnTransformed(foundNews, now)
             ELSE NotFound

\* strategy 1, streamed fragments: the first push call that returns
RECURSIVE StreamedFragments(_, _, _)
StreamedFragments(push, i, now) ==
    IF i > Len(push) THEN << >>
    ELSE LET r == PushCallResult(push[i], now)
         IN  IF r.found THEN r.items ELSE StreamedFragments(push, i + 1, now)

\* one row of the data grid: an announcement, or nothing when it has no data-id or no title;
\* hrefId is what follows "/news/" in the href of the title link ("": no such href)
RowAnnouncement(row, now) ==
    IF row.id = "" \/ row.title = "" THEN << >>
    ELSE << [id |-> row.id, title |-> row.title,
             publishedAt |-> IF row.publishedAt # "" THEN DateOf(row.publishedAt) ELSE DateNow(now),
             url |-> <<BaseUrl, "/news/", IF row.hrefId # "" THEN row.hrefId ELSE row.id>>] >>

RECURSIVE RowsFrom(_, _, _)
RowsFrom(rows, i, now) ==
    IF i > Len(rows) THEN << >> ELSE RowAnnouncement(rows[i], now) \o RowsFrom(rows, i + 1, now)

\* strategy 2, NLobbyApi.parseAnnouncementsWithCheerio: the rows of the second
\* div[role="presentation"]
parseAnnouncementsWithCheerio(dom, now) ==
    IF dom.presentation < 2 THEN << >> ELSE RowsFrom(dom.rows, 1, now)

\* strategy 3, __NEXT_DATA__: the matches of the three patterns, in order
RECURSIVE NextDataScan(_, _, _)
NextDataScan(matches, i, now) ==
    IF i > Len(matches) THEN << >>
    ELSE LET foundNews == searchForNewsInData(matches[i])
             r == IF Len(foundNews) > 0 THEN ReturnTransformed(foundNews, now) ELSE NotFound
         IN  IF r.found THEN r.items ELSE NextDataScan(matches, i + 1, now)

\* strategies 4 and 5: the matches of the patterns, in order; only a non-empty array is searched
RECURSIVE ArrayPatternScan(_, _, _)
ArrayPatternScan(matches, i, now) ==
    IF i > Len(matches) THEN << >>
    ELSE LET newsData == matches[i]
             foundNews == IF newsData.t = "arr" /\ Size(newsData) > 0
                          THEN searchForNewsInData(newsData) ELSE << >>
             r == IF Len(foundNews) > 0 THEN ReturnTransformed(foundNews, now) ELSE NotFound
         IN  IF r.found THEN r.items ELSE ArrayPatternScan(matches, i + 1, now)

\* what strategy k of parseNewsFromHtml extracts from the page
StrategyResult(k, page, now) ==
    IF k = 1 THEN StreamedFragments(page.push, 1, now)
    ELSE IF k = 2 THEN parseAnnouncementsWithCheerio(page.dom, now)
    ELSE IF k = 3 THEN NextDataScan(page.nextData, 1, now)
    ELSE IF k = 4 THEN ArrayPatternScan(page.react, 1, now)
    ELSE ArrayPatternScan(page.simple, 1, now)

NumStrategies == 5

NoParse == [kind |-> "none", items |-> << >>]

\* a tail that returns null when nothing was found
NothingFoundNull == [kind |-> "null", items |-> << >>]

\* the tail of parseNewsFromHtml: the summary is logged, the empty announcements array returned
NothingFound == [kind |-> "list", items |-> << >>]

\* a cascade that does not return at the first success
cascadeStepNoReturn(k, items) ==
    IF k < NumStrategies THEN [pc |-> "strategy", out |-> NoParse]
    ELSE [pc |-> "parsed", out |-> [kind |-> "list", items |-> items]]

\* the cascade of parseNewsFromHtml after strategy k: return its records, or go on
cascadeStep(k, items) ==
    IF Len(items) > 0 THEN [pc |-> "parsed", out |-> [kind |-> "list", items |-> items]]
    ELSE IF k < NumStrategies THEN [pc |-> "strategy", out |-> NoParse]
    ELSE [pc |-> "parsed", out |-> NothingFound]

NoDataMessage == "HTML scraping returned no data. Debug info: ..."

AccessDeniedMessage == "Access denied - authentication failed"

NoNews == [kind |-> "none", items |-> << >>, error |-> NoError]

\* NLobbyApi.getNews after parseNewsFromHtml: the records, or an Error when there are none
getNewsResult(news) ==
    IF news.kind = "list" /\ Len(news.items) > 0
    THEN [kind |-> "returned", items |-> news.items, error |-> NoError]
    ELSE [kind |-> "threw", items |-> << >>, error |-> PlainError(NoDataMessage)]

\* the reply of the operation built on getNews: the get_news tool catches and answers a
\* text that starts with "Error:", the nlobby://news resource rethrows as McpError
handlerReply(entry, out) ==
    IF out.kind = "returned" THEN "content"
    ELSE IF entry = "get_news" THEN "errorText"
    ELSE "mcpError"

-----------------------------------------------------------------------------
(* Pages.  A page is modelled by what the patterns of the five strategies  *)
(* match in it and what JSON.parse gives for each match.                   *)

MaxPushCalls == 2

ItemA == JObj(<< <<"id", Str("7")>>, <<"title", Str("A")>> >>)

ItemB == JObj(<< <<"id", JNum("8")>>, <<"name", Str("B")>>, <<"publishedAt", Str("2025-07-13")>> >>)

ItemD == JObj(<< <<"title", Str("D")>> >>)

ItemZ == JObj(<< <<"id", JNum("0")>>, <<"title", Str("Z")>> >>)

ItemP == JObj(<< <<"id", Str("p1")>>, <<"title", Str("P")>> >>)

ItemN == JObj(<< <<"id", Str("n1")>>, <<"title", Str("N")>> >>)

ItemX == JObj(<< <<"id", Str("x1")>>, <<"title", Str("X")>> >>)

ItemQ == JObj(<< <<"id", Str("q1")>>, <<"title", Str("Q")>> >>)

\* the content of a prefixed fragment: [["$","$L1",null,{"news": news}]]
Component(news) ==
    JArr(<< JArr(<< Str("$"), Str("$L1"), JNull, JObj(<< <<"news", news>> >>) >>) >>)

PushNews ==
    JArr(<< JNum("1"), StrOf("5:[[..]]", "5", Component(JArr(<<ItemA, ItemB, ItemZ>>))) >>)

PushNullTail == JArr(<< JNum("1"), StrOf("6:[[..]]", "6", Component(JArr(<<ItemA, JNull>>))) >>)

PushBadInner == JArr(<< JNum("1"), StrOf("9:T5,", "9", Bad) >>)

PushPlain == JArr(<< JNum("1"), StrOf("{..}", "", JObj(<< <<"items", JArr(<<ItemP>>)>> >>)) >>)

PushText == JArr(<< JNum("1"), Str("Hello") >>)

PushDirect == JArr(<< ItemD >>)

PushCases == {Bad, PushNews, PushNullTail, PushBadInner, PushPlain, PushText, PushDirect}

PushSeqs == UNION { [1..n -> PushCases] : n \in 0..MaxPushCalls }

Row(id, title, hrefId, publishedAt) ==
    [id |-> id, title |-> title, hrefId |-> hrefId, publishedAt |-> publishedAt]

DomNone == [presentation |-> 0, rows |-> << >>]

DomOneContainer == [presentation |-> 1, rows |-> << Row("r1", "R", "r1", "2025/07/13 09:00") >>]

DomBadRows == [presentation |-> 2, rows |-> << Row("", "R", "", ""), Row("r2", "", "", "") >>]

DomRows ==
    [presentation |-> 2, rows |-> << Row("r1", "R", "r1", "2025/07/13 09:00"), Row("r3", "S", "", "") >>]

DomCases == {DomNone, DomOneContainer, DomBadRows, DomRows}

NextDataNews ==
    << Bad, JObj(<< <<"props", JObj(<< <<"pageProps", JObj(<< <<"news", JArr(<<ItemN>>)>> >>)>> >>)>> >>) >>

NextDataNumbers == << JObj(<< <<"props", JObj(<< <<"list", JArr(<<JNum("1")>>)>> >>)>> >>) >>

NextDataCases == { << >>, NextDataNews, NextDataNumbers }

ReactNews == << Bad, JArr(<< >>), JArr(<<ItemX, JNull>>), JArr(<<ItemX>>) >>

ReactNumbers == << JArr(<<JNum("1")>>) >>

ReactCases == { << >>, ReactNews, ReactNumbers }

SimpleNews == << Bad, JObj(<< <<"id", Str("o")>> >>), JArr(<<ItemQ>>) >>

SimpleCases == { << >>, SimpleNews }

Page(p, d, n, r, q) == [push |-> p, dom |-> d, nextData |-> n, react |-> r, simple |-> q]

\* the pages: every sequence of push calls in a page whose other parts hold nothing, hold
\* records for every strategy, or hold only what strategy 5 accepts; and every combination
\* of the other parts in a page whose push calls give no record
PushProbes == { << >>, <<Bad>>, <<PushNullTail, PushText>> }

Pages ==
    { Page(p, DomNone, << >>, << >>, << >>) : p \in PushSeqs }
    \cup { Page(p, DomRows, NextDataNews, ReactNews, SimpleNews) : p \in PushSeqs }
    \cup { Page(p, DomBadRows, NextDataNumbers, ReactNumbers, SimpleNews) : p \in PushSeqs }
    \cup { Page(p, d, n, r, q) :
             p \in PushProbes, d \in DomCases, n \in NextDataCases, r \in ReactCases, q \in SimpleCases }

NoPage == [push |-> << >>, dom |-> [presentation |-> 0, rows |-> << >>], nextData |-> << >>,
           react |-> << >>, simple |-> << >>]

\* the readings of the clock
Clocks == {1, 2}

Entries == {"get_news", "nlobby://news"}


\* the blobs a session may have been set up with before the calls start
CallBlobs == { << <<NameOther, "o1">> >>, << <<NameSession, "a%2Fb">>, <<NameCsrf, "c1">> >> }

-----------------------------------------------------------------------------
(* The tools at rest.                                                      *)

NoArgs == [period |-> "", from_date |-> "", to_date |-> "", calendar_type |-> ""]

NoRange == [given |-> FALSE, from |-> 0, to |-> 0]

NoCalResponse == [kind |-> "none", status |-> 0, events |-> << >>]

NoCalReply == [kind |-> "none", message |-> << >>, schedule |-> << >>, results |-> << >>]

CalendarIdle ==
    /\ calPc = "idle"
    /\ calTool = ""
    /\ calArgs = NoArgs
    /\ calRange = NoRange
    /\ calSent = << >>
    /\ calResp = NoCalResponse
    /\ calReply = NoCalReply

NoDetailArgs == [newsId |-> "", markAsRead |-> FALSE]

NoDetail ==
    [kind |-> "none", message |-> << >>, id |-> "", title |-> "", content |-> "",
     description |-> "", url |-> << >>]

DetailIdle ==
    /\ detPc = "idle"
    /\ detArgs = NoDetailArgs
    /\ detPage = << >>
    /\ detOut = NoDetail
    /\ detLog = << >>
    /\ detReply = NoDetail

NoCourse == [kind |-> "none", report |-> << >>, reportDetails |-> << >>]

NoEnhancedCourse ==
    [kind |-> "none", report |-> << >>, reportDetails |-> << >>, progressPercentage |-> 0,
     averageScore |-> << >>]

CourseIdle == course = NoCourse /\ enhancedCourse = NoEnhancedCourse

NoLoginReply == [kind |-> "none", message |-> << >>]

LoginIdle ==
    /\ loginPc = "idle"
    /\ loginAttempt = 0
    /\ loginBrowser = "none"
    /\ loginLog = << >>
    /\ loginReply = NoLoginReply
    /\ loginClosed = FALSE

NoSetReply == [kind |-> "none", message |-> << >>]

CookieToolIdle == setArgs = EmptyBlob /\ setReply = NoSetReply

NoSearch == [done |-> FALSE, found |-> << >>]

SearchIdle == searchIn = JNull /\ searchOut = NoSearch

NoStatus ==
    [hasHttpCookies |-> FALSE, hasTrpcCookies |-> FALSE, hasNextAuthCookies |-> FALSE,
     sessionToken |-> FALSE, csrfToken |-> FALSE, callbackUrl |-> FALSE]

NoDiag == [kind |-> "none", healthy |-> FALSE, status |-> NoStatus, lines |-> << >>]

DiagIdle ==
    /\ diagPc = "idle" /\ diagOp = "" /\ diagStep = 0 /\ diagLog = << >> /\ diagOut = NoDiag

ToolsIdle == CalendarIdle /\ DetailIdle /\ CourseIdle /\ LoginIdle /\ CookieToolIdle /\ SearchIdle /\ DiagIdle

-----------------------------------------------------------------------------
Init ==
    /\ ToolsIdle
    /\ httpCookie = EmptyBlob
    /\ session = FALSE
    /\ nextAuthCookies = NoCookies
    /\ allCookies = EmptyBlob
    /\ lastApplied = EmptyBlob
    /\ httpPending = FALSE
    /\ lastOp = NoOp
    /\ requestId = 1
    /\ callPc = [c \in AllCallers |-> "idle"]
    /\ callLog = [c \in AllCallers |-> << >>]
    /\ callOut = [c \in AllCallers |-> NoOutcome]
    /\ sweepPc = "idle"
    /\ sweepTried = << >>
    /\ sweepResult = "null"
    /\ newsEntry = ""
    /\ newsPc = "idle"
    /\ html = NoPage
    /\ clock = 0
    /\ strategyIdx = 0
    /\ parseRan = << >>
    /\ parseOut = NoParse
    /\ newsOut = NoNews
    /\ reply = ""

SetCookiesFrom(B) ==
    \E cookies \in B :
        LET r == setCookies(Store, cookies)
        IN  /\ httpCookie' = r.http
            /\ nextAuthCookies' = r.auth
            /\ allCookies' = r.trpc
            /\ lastApplied' = IF r.applied THEN cookies ELSE lastApplied
            /\ lastOp' = [NoOp EXCEPT !.op = "setCookies", !.blank = cookies \in BlankBlobs,
                                       !.threw = r.threw,
                                       !.authBefore = isAuthenticated(nextAuthCookies)]
            /\ UNCHANGED <<session, httpPending>>

SetCookies == SetCookiesFrom(Blobs) /\ UNCHANGED <<callVars, sweepVars, newsVars, toolVars>>

\* an outbound request of the HTTP client (this.httpClient.get / post of NLobbyApi)
HttpSend ==
    /\ ~httpPending
    /\ httpPending' = TRUE
    /\ lastOp' = [NoOp EXCEPT !.op = "httpSend", !.verb = "GET",
                               !.headers = TransportRequestHeaders(httpCookie, session)]
    /\ UNCHANGED <<httpCookie, session, nextAuthCookies, allCookies, lastApplied, callVars, sweepVars, newsVars, toolVars>>

\* its response: 2xx resolves, anything else goes through the response interceptor
HttpReceive ==
    /\ httpPending
    /\ \E status \in Statuses :
          lastOp' = [NoOp EXCEPT !.op = "httpResponse", !.status = status,
                                 !.threw = status # 200,
                                 !.error = IF status = 200 THEN NoError
                                           ELSE TransportResponseError(status, session)]
    /\ httpPending' = FALSE
    /\ UNCHANGED <<httpCookie, session, nextAuthCookies, allCookies, lastApplied, callVars, sweepVars, newsVars, toolVars>>

\* an outbound request of the RPC client: the request interceptor runs for GET and POST alike
RpcSend ==
    /\ \E verb \in {"GET", "POST"} :
          lastOp' = [NoOp EXCEPT !.op = "rpcSend", !.verb = verb,
                                 !.headers = RpcRequestHeaders(allCookies, nextAuthCookies)]
    /\ UNCHANGED <<httpCookie, session, nextAuthCookies, allCookies, lastApplied, httpPending, callVars, sweepVars, newsVars, toolVars>>

SessionNext == SetCookies \/ HttpSend \/ HttpReceive \/ RpcSend

\* the state after construction and one setCookies of the operator
CallInit ==
    \E cookies \in CallBlobs :
        LET r == setCookies([http |-> EmptyBlob, auth |-> NoCookies, trpc |-> EmptyBlob], cookies)
        IN  /\ ToolsIdle
            /\ httpCookie = r.http
            /\ session = FALSE
            /\ nextAuthCookies = r.auth
            /\ allCookies = r.trpc
            /\ lastApplied = cookies
            /\ httpPending = FALSE
            /\ lastOp = [NoOp EXCEPT !.op = "setCookies"]
            /\ requestId = 1
            /\ callPc = [c \in AllCallers |-> "idle"]
            /\ callLog = [c \in AllCallers |-> << >>]
            /\ callOut = [c \in AllCallers |-> NoOutcome]
            /\ sweepPc = "idle"
            /\ sweepTried = << >>
            /\ sweepResult = "null"
            /\ newsEntry = ""
            /\ newsPc = "idle"
            /\ html = NoPage
            /\ clock = 0
            /\ strategyIdx = 0
            /\ parseRan = << >>
            /\ parseOut = NoParse
            /\ newsOut = NoNews
            /\ reply = ""

CallNext == CallStart \/ GetResponse \/ PostResponse

SpecCall == CallInit /\ [][CallNext]_vars

\* one operation calls the RPC client while another operation sets the cookies
SoloCallStart ==
    /\ requestId <= MaxRequestId
    /\ \E method \in Methods : CallBegin("a", method)
    /\ UNCHANGED <<sessionVars, sweepVars, newsVars, toolVars>>

SetCookiesInFlight ==
    SetCookiesFrom(CallBlobs) /\ UNCHANGED <<callVars, sweepVars, newsVars, toolVars>>

CallStoreNext == SoloCallStart \/ GetResponse \/ PostResponse \/ SetCookiesInFlight

SpecCallStore == CallInit /\ [][CallStoreNext]_vars

\* a get_news call or a read of nlobby://news arrives: getNews starts and fetches /news
NewsRequest ==
    /\ newsPc = "idle"
    /\ \E entry \in Entries : newsEntry' = entry
    /\ newsPc' = "fetching"
    /\ UNCHANGED <<html, clock, strategyIdx, parseRan, parseOut, newsOut, reply>>
    /\ UNCHANGED <<sessionVars, callVars, sweepVars, toolVars>>

\* fetchRenderedHtml returns the page and parseNewsFromHtml starts
FetchHtml ==
    /\ newsPc = "fetching"
    /\ \E pg \in Pages, now \in Clocks : html' = pg /\ clock' = now
    /\ newsPc' = "strategy"
    /\ strategyIdx' = 1
    /\ UNCHANGED <<newsEntry, parseRan, parseOut, newsOut, reply>>
    /\ UNCHANGED <<sessionVars, callVars, sweepVars, toolVars>>

\* fetchRenderedHtml throws: the request is rejected, or the page says access denied
FetchFails ==
    /\ newsPc = "fetching"
    /\ \E err \in { TransportResponseError(st, session) : st \in Statuses \ {200} }
                   \cup { PlainError(AccessDeniedMessage) } :
          newsOut' = [kind |-> "threw", items |-> << >>, error |-> err]
    /\ newsPc' = "finished"
    /\ UNCHANGED <<newsEntry, html, clock, strategyIdx, parseRan, parseOut, reply>>
    /\ UNCHANGED <<sessionVars, callVars, sweepVars, toolVars>>

\* parseNewsFromHtml runs its next strategy
RunStrategy ==
    /\ newsPc = "strategy"
    /\ LET step == cascadeStep(strategyIdx, StrategyResult(strategyIdx, html, clock))
       IN  /\ newsPc' = step.pc
           /\ parseOut' = step.out
           /\ strategyIdx' = IF step.pc = "strategy" THEN strategyIdx + 1 ELSE strategyIdx
    /\ parseRan' = Append(parseRan, strategyIdx)
    /\ UNCHANGED <<newsEntry, html, clock, newsOut, reply>>
    /\ UNCHANGED <<sessionVars, callVars, sweepVars, toolVars>>

\* getNews ends
GetNewsFinish ==
    /\ newsPc = "parsed"
    /\ newsOut' = getNewsResult(parseOut)
    /\ newsPc' = "finished"
    /\ UNCHANGED <<newsEntry, html, clock, strategyIdx, parseRan, parseOut, reply>>
    /\ UNCHANGED <<sessionVars, callVars, sweepVars, toolVars>>

\* the operation answers its caller
NewsReply ==
    /\ newsPc = "finished"
    /\ reply' = handlerReply(newsEntry, newsOut)
    /\ newsPc' = "replied"
    /\ UNCHANGED <<newsEntry, html, clock, strategyIdx, parseRan, parseOut, newsOut>>
    /\ UNCHANGED <<sessionVars, callVars, sweepVars, toolVars>>

NewsNext == NewsRequest \/ FetchHtml \/ FetchFails \/ RunStrategy \/ GetNewsFinish \/ NewsReply

SpecNews == Init /\ [][NewsNext]_vars

SweepNext == SweepStart \/ SweepStep \/ GetResponse \/ PostResponse

SpecSweep == CallInit /\ [][SweepNext]_vars

SpecSession == Init /\ [][SessionNext]_vars

-----------------------------------------------------------------------------
(* Calendar.  An instant is a number of milliseconds, counted from the     *)
(* start of 2023-12-31 on a server whose local time is UTC; NaN is the     *)
(* time value of an Invalid Date.                                          *)

DayMs == 86400000

HourMs == 3600000

\* the time of day of setHours(23, 59, 59, 999)
EndOfDayMs == 86399999

\* the time of day of "T23:59:59"
LastSecondMs == 86399000

NaN == -1

IsNaN(t) == t = NaN

\* t + d on time values
Plus(t, d) == IF IsNaN(t) THEN NaN ELSE t + d

\* the date strings of the model and the day each names
DayNumber == ("2024-01-14" :> 14) @@ ("2024-01-15" :> 15) @@ ("2024-01-16" :> 16) @@ ("2024-01-17" :> 17)

Dates == DOMAIN DayNumber

\* the date-time strings of the model and the instant each names
DateTimeMs ==
    ("2024-01-15T10:00:00Z" :> 15 * DayMs + 10 * HourMs)
    @@ ("2024-01-15T23:30:00Z" :> 15 * DayMs + 23 * HourMs + 1800000)
    @@ ("2024-01-16T06:00:00Z" :> 16 * DayMs + 6 * HourMs)

DateTimes == DOMAIN DateTimeMs

Garbage == "next tuesday-ish"

\* the present instant: 2024-01-10T12:00:00
Now == 10 * DayMs + 12 * HourMs

\* new Date(text).getTime()
NewDate(text) ==
    IF text \in Dates THEN DayNumber[text] * DayMs
    ELSE IF text \in DateTimes THEN DateTimeMs[text]
    ELSE NaN

\* new Date(date + "T00:00:00").getTime() and new Date(date + "T23:59:59").getTime()
NewDateAt(date, timeOfDay) == IF date \in Dates THEN DayNumber[date] * DayMs + timeOfDay ELSE NaN

\* d.setHours(0, 0, 0, 0)
StartOfDay(t) == IF IsNaN(t) THEN NaN ELSE t - (t % DayMs)

\* d.setHours(23, 59, 59, 999)
EndOfDay(t) == Plus(StartOfDay(t), EndOfDayMs)

InvalidDateMessage == <<"Invalid date format provided">>

TooShortMessage == <<"To date must be at least 1 day after from date. For single day queries, use period=\"today\" or single from_date parameter.">>

Range(from, to) == [given |-> TRUE, from |-> from, to |-> to]

Built(range) == [threw |-> FALSE, message |-> << >>, range |-> range]

Rejected(message) == [threw |-> TRUE, message |-> message, range |-> NoRange]

\* a createDateRange that only rejects a range that is inverted or empty
createDateRangeOrdered(fromDate, toDate) ==
    LET from == NewDate(fromDate)
        to == NewDate(toDate)
    IN  IF IsNaN(from) \/ IsNaN(to) THEN Rejected(InvalidDateMessage)
        ELSE IF to - from <= 0 THEN Rejected(TooShortMessage)
        ELSE Built(Range(from, to))

\* NLobbyApi.createDateRange
createDateRange(fromDate, toDate) ==
    LET from == NewDate(fromDate)
        to == NewDate(toDate)
    IN  IF IsNaN(from) \/ IsNaN(to) THEN Rejected(InvalidDateMessage)
        ELSE IF to - from < DayMs THEN Rejected(TooShortMessage)
        ELSE Built(Range(from, to))

\* NLobbyApi.createSingleDayRange, on the time value of its argument
createSingleDayRange(targetDate) ==
    IF IsNaN(targetDate) THEN Rejected(InvalidDateMessage)
    ELSE Built(Range(StartOfDay(targetDate), EndOfDay(targetDate)))

\* NLobbyApi.createWeekDateRange()
createWeekDateRange == Built(Range(StartOfDay(Now), EndOfDay(StartOfDay(Now) + 6 * DayMs)))

\* NLobbyApi.getDefaultDateRange()
getDefaultDateRange == Range(StartOfDay(Now), EndOfDay(Now + 7 * DayMs))

\* the dateRange the handler of a calendar tool builds from its arguments
handlerDateRange(tool, args) ==
    IF tool = "get_calendar_events" /\ args.period # ""
    THEN IF args.period = "today" THEN createSingleDayRange(Now)
         ELSE IF args.period = "week" THEN createWeekDateRange
         ELSE Rejected(<<"Invalid period: ", args.period>>)
    ELSE IF args.from_date # "" /\ args.to_date # ""
    THEN createDateRange(args.from_date, args.to_date)
    ELSE IF args.from_date # "" THEN createSingleDayRange(NewDate(args.from_date))
    ELSE Built(NoRange)

\* calendar_type === "school" ? CalendarType.SCHOOL : CalendarType.PERSONAL
CalendarTypeOf(args) == IF args.calendar_type = "school" THEN "school" ELSE "personal"

\* the request getGoogleCalendarEvents sends
CalendarRequestOf(calendarType, dateRange) ==
    LET range == IF dateRange.given THEN dateRange ELSE getDefaultDateRange
    IN  [endpoint |-> IF calendarType = "personal"
                      THEN "/api/trpc/calendar.getGoogleCalendarEvents"
                      ELSE "/api/trpc/calendar.getLobbyCalendarEvents",
         from |-> range.from, to |-> range.to]

(* Upstream events.  A field that is absent is the empty string; start and *)
(* end are the nested objects, present or not.                             *)

NoPart == [present |-> FALSE, dateTime |-> "", date |-> ""]

Part(dateTime, date) == [present |-> TRUE, dateTime |-> dateTime, date |-> date]

Event(id, summary, startDateTime, endDateTime, start, end) ==
    [id |-> id, summary |-> summary, title |-> "", startDateTime |-> startDateTime,
     endDateTime |-> endDateTime, start |-> start, end |-> end]

\* the event with a title field
Titled(event, title) == [event EXCEPT !.title = title]

\* the keywords the lower-cased summary includes
Includes ==
    ("" :> {}) @@ ("Math Class" :> {"class"}) @@ ("MTG before exam" :> {"mtg", "exam"})
    @@ ("Final Exam" :> {"exam"}) @@ ("Lunch" :> {}) @@ ("No Title" :> {})

Summaries == DOMAIN Includes \ {"No Title"}

\* the type of an event, from its summary (the Japanese keywords are written in romaji)
EventType(summary) ==
    LET found == Includes[summary]
    IN  IF found \cap {"jugyo", "class"} # {} THEN "class"
        ELSE IF found \cap {"mtg", "miitingu", "meeting", "mendan"} # {} THEN "meeting"
        ELSE IF found \cap {"shiken", "exam", "tesuto"} # {} THEN "exam"
        ELSE "event"

\* the start of an event
EventStart(event) ==
    IF event.startDateTime # "" THEN NewDate(event.startDateTime)
    ELSE IF event.start.present
    THEN IF event.start.dateTime # "" THEN NewDate(event.start.dateTime)
         ELSE IF event.start.date # "" THEN NewDateAt(event.start.date, 0)
         ELSE Now
    ELSE Now

\* an end of an event that takes the end date of an all-day event as inclusive
EventEndInclusive(event) ==
    IF event.startDateTime # ""
    THEN IF event.endDateTime # "" THEN NewDate(event.endDateTime)
         ELSE Plus(EventStart(event), HourMs)
    ELSE IF event.start.present
    THEN IF event.end.present /\ event.end.dateTime # "" THEN NewDate(event.end.dateTime)
         ELSE IF event.end.present /\ event.end.date # ""
         THEN NewDateAt(event.end.date, LastSecondMs)
         ELSE Plus(EventStart(event), HourMs)
    ELSE Plus(Now, HourMs)

\* the end of an event
EventEnd(event) ==
    IF event.startDateTime # ""
    THEN IF event.endDateTime # "" THEN NewDate(event.endDateTime)
         ELSE Plus(EventStart(event), HourMs)
    ELSE IF event.start.present
    THEN IF event.end.present /\ event.end.dateTime # "" THEN NewDate(event.end.dateTime)
         ELSE IF event.end.present /\ event.end.date # ""
         THEN Plus(NewDateAt(event.end.date, LastSecondMs), 0 - DayMs)
         ELSE Plus(EventStart(event), HourMs)
    ELSE Plus(Now, HourMs)

\* the body of the map callback of convertGoogleCalendarEventsToScheduleItems
ScheduleItem(event) ==
    [id |-> IF event.id # "" THEN event.id ELSE "Math.random()",
     title |-> IF event.summary # "" THEN event.summary
               ELSE IF event.title # "" THEN event.title ELSE "No Title",
     startTime |-> EventStart(event),
     endTime |-> EventEnd(event),
     type |-> EventType(event.summary)]

\* NLobbyApi.convertGoogleCalendarEventsToScheduleItems
convertGoogleCalendarEventsToScheduleItems(events) ==
    [i \in 1..Len(events) |-> ScheduleItem(events[i])]

\* the largest number of events in a calendar response
MaxEvents == 1

FlatEvents ==
    { Event("e1", "", "2024-01-15T10:00:00Z", end, NoPart, NoPart) :
        end \in {"", "2024-01-16T06:00:00Z", Garbage} }
    \cup { Event("e1", "", "2024-01-15T23:30:00Z", "2024-01-15T10:00:00Z", NoPart, NoPart),
           Event("e1", "", Garbage, "", NoPart, NoPart) }

NestedEvents ==
    { Event("e1", "", "", "", Part("2024-01-15T10:00:00Z", ""), end) :
        end \in {NoPart, Part("", ""), Part("2024-01-16T06:00:00Z", ""), Part(Garbage, ""),
                 Part("", Garbage), Part("", "2024-01-14")} }
    \cup { Event("e1", summary, "", "", Part("", "2024-01-15"), Part("", "2024-01-17")) :
             summary \in Summaries }
    \cup { Event("", "", "", "", Part("", "2024-01-15"), Part("", "2024-01-16")),
           Event("e1", "", "", "", Part("", "2024-01-15"), NoPart),
           Event("e1", "", "", "", Part("", ""), NoPart),
           Event("e1", "Lunch", "", "", NoPart, Part("", "2024-01-16")),
           Titled(Event("e1", "", "", "", Part("", "2024-01-15"), Part("", "2024-01-17")), "Math Class"),
           Titled(Event("e1", "Lunch", "", "", Part("", "2024-01-15"), Part("", "2024-01-17")), "Final Exam") }

EventCases == FlatEvents \cup NestedEvents

EventSeqs == UNION { [1..n -> EventCases] : n \in 0..MaxEvents }

\* for the endpoint test, which only counts the events
CountedSeqs == { [i \in 1..n |-> Event("e1", "", "", "", Part("", "2024-01-15"), Part("", "2024-01-17"))] :
                   n \in 0..MaxEvents }

CalResponse(kind, status, events) == [kind |-> kind, status |-> status, events |-> events]

CalResponses(seqs) ==
    { CalResponse("failed", status, << >>) : status \in {401, 500} }
    \cup { CalResponse("unexpected", 200, << >>) }
    \cup { CalResponse("events", 200, events) : events \in seqs }

AuthRequiredMessage == <<"Authentication required. Please use the set_cookies tool to provide valid NextAuth.js session cookies from N Lobby.">>

\* NLobbyApi.getGoogleCalendarEvents, from the response on
getGoogleCalendarEvents(calendarType, resp) ==
    IF resp.kind = "events" THEN [threw |-> FALSE, message |-> << >>, events |-> resp.events]
    ELSE IF resp.kind = "unexpected"
    THEN [threw |-> TRUE, events |-> << >>,
          message |-> <<"Invalid calendar response format for ", calendarType, " calendar.">>]
    ELSE IF resp.status = 401 THEN [threw |-> TRUE, events |-> << >>, message |-> AuthRequiredMessage]
    ELSE [threw |-> TRUE, events |-> << >>, message |-> <<"Request failed with status code 500">>]

\* NLobbyApi.getSchedule, from the response on
getSchedule(calendarType, resp) ==
    LET got == getGoogleCalendarEvents(calendarType, resp)
    IN  IF got.threw
        THEN [threw |-> TRUE, schedule |-> << >>,
              message |-> <<"Failed to fetch ", calendarType, " calendar: ">> \o got.message]
        ELSE [threw |-> FALSE, message |-> << >>,
              schedule |-> convertGoogleCalendarEventsToScheduleItems(got.events)]

\* one entry of the results of NLobbyApi.testCalendarEndpoints
EndpointResult(calendarType, resp) ==
    LET got == getGoogleCalendarEvents(calendarType, resp)
    IN  [success |-> ~got.threw, count |-> Len(got.events), error |-> got.message]

Periods == {"today", "week", "fortnight"}

ArgDates == {Garbage, "2024-01-14", "2024-01-15", "2024-01-16", "2024-01-15T10:00:00Z", "2024-01-16T06:00:00Z"}

Args(period, from, to, type) ==
    [period |-> period, from_date |-> from, to_date |-> to, calendar_type |-> type]

\* the arguments of a call: every pair of dates without a period; with a period, the dates
\* absent or unparsable.  test_calendar_endpoints reads the two dates only.
CalendarArgs(tool) ==
    IF tool = "get_calendar_events"
    THEN { Args("", from, to, type) :
             from \in ArgDates \cup {""}, to \in ArgDates \cup {""}, type \in {"", "school"} }
         \cup { Args(period, from, to, "") :
                  period \in Periods, from \in {"", Garbage}, to \in {"", Garbage} }
    ELSE { Args("", from, to, "") : from \in ArgDates \cup {""}, to \in ArgDates \cup {""} }

CalendarTools == {"get_calendar_events", "test_calendar_endpoints"}

ErrorPrefix(tool) ==
    IF tool = "get_calendar_events" THEN "Error: " ELSE "Error testing calendar endpoints: "

CalError(tool, message) ==
    [kind |-> "error", message |-> <<ErrorPrefix(tool)>> \o message, schedule |-> << >>, results |-> << >>]

\* a calendar tool is called: the handler builds the date range and, unless that throws,
\* the first request goes out
CalendarCall ==
    /\ calPc = "idle"
    /\ \E tool \in CalendarTools :
         \E args \in CalendarArgs(tool) :
            LET built == handlerDateRange(tool, args)
                first == IF tool = "get_calendar_events" THEN CalendarTypeOf(args) ELSE "personal"
            IN  /\ calTool' = tool
                /\ calArgs' = args
                /\ UNCHANGED calResp
                /\ IF built.threw
                   THEN /\ calPc' = "done"
                        /\ calReply' = CalError(tool, built.message)
                        /\ UNCHANGED <<calRange, calSent>>
                   ELSE /\ calPc' = "waiting"
                        /\ calRange' = built.range
                        /\ calSent' = << CalendarRequestOf(first, built.range) >>
                        /\ UNCHANGED calReply
    /\ UNCHANGED notCalendar

\* the response to the request of get_calendar_events arrives
ScheduleResponse ==
    /\ calPc = "waiting"
    /\ calTool = "get_calendar_events"
    /\ \E resp \in CalResponses(EventSeqs) :
          LET got == getSchedule(CalendarTypeOf(calArgs), resp)
          IN  /\ calResp' = resp
              /\ calReply' = IF got.threw THEN CalError(calTool, got.message)
                              ELSE [kind |-> "content", message |-> << >>,
                                    schedule |-> got.schedule, results |-> << >>]
    /\ calPc' = "done"
    /\ UNCHANGED <<calTool, calArgs, calRange, calSent>>
    /\ UNCHANGED notCalendar

\* the response to a request of test_calendar_endpoints arrives: the personal calendar
\* first, then the school calendar
EndpointTestResponse ==
    /\ calPc = "waiting"
    /\ calTool = "test_calendar_endpoints"
    /\ \E resp \in CalResponses(CountedSeqs) :
          /\ calResp' = resp
          /\ IF Len(calSent) = 1
             THEN /\ calReply' = [calReply EXCEPT !.results = << EndpointResult("personal", resp) >>]
                  /\ calSent' = Append(calSent, CalendarRequestOf("school", calRange))
                  /\ calPc' = "waiting"
             ELSE /\ calReply' = [calReply EXCEPT !.kind = "content",
                                    !.results = Append(@, EndpointResult("school", resp))]
                  /\ calPc' = "done"
                  /\ UNCHANGED calSent
    /\ UNCHANGED <<calTool, calArgs, calRange>>
    /\ UNCHANGED notCalendar

CalendarNext == CalendarCall \/ ScheduleResponse \/ EndpointTestResponse

SpecCalendar == Init /\ [][CalendarNext]_vars

-----------------------------------------------------------------------------
(* News detail.  The page of one news item is the sequence of the payloads *)
(* of its self.__next_f.push() calls, as JSON.parse gives them.            *)

\* the strings that match /^\d+:T\d+,?$/, each with the key .replace(/,$/, "") gives
MarkerKey == ("9:T5," :> "9:T5") @@ ("12:T7," :> "12:T7") @@ ("12:T7" :> "12:T7")

IsMarker(v) == v.t = "str" /\ v.s \in DOMAIN MarkerKey

\* the keys a description includes
Mentions ==
    ("see 9:T5," :> {"9:T5"}) @@ ("$12:T7" :> {"12:T7"}) @@ ("plain" :> {})

\* description.includes(refKey)
DescriptionIncludes(description, refKey) ==
    description \in DOMAIN Mentions /\ refKey \in Mentions[description]

\* the contents in which decodeHtmlContent replaces an escape, each with what it becomes
Escaped == ("a\\u003cb" :> "a<b")

\* NLobbyApi.decodeHtmlContent
decodeHtmlContent(content) == IF content \in DOMAIN Escaped THEN Escaped[content] ELSE content

RECURSIVE searchForNewsDataInObject(_)
RECURSIVE SearchValuesFrom(_, _)
\* NLobbyApi.searchForNewsDataInObject; null when nothing is found
searchForNewsDataInObject(obj) ==
    IF ~IsObjectLike(obj) THEN JNull
    ELSE IF /\ Truthy(Get(obj, "id")) /\ Truthy(Get(obj, "title"))
            /\ \/ Truthy(Get(obj, "publishedAt"))
               \/ Truthy(Get(obj, "description"))
               \/ Truthy(Get(obj, "menuName"))
    THEN obj
    ELSE IF Truthy(Get(obj, "news")) /\ IsObjectLike(Get(obj, "news")) THEN Get(obj, "news")
    ELSE SearchValuesFrom(obj, 1)

SearchValuesFrom(obj, i) ==
    IF i > Size(obj) THEN JNull
    ELSE LET found == IF IsObjectLike(At(obj, i)) THEN searchForNewsDataInObject(At(obj, i))
                      ELSE JNull
         IN  IF Truthy(found) THEN found ELSE SearchValuesFrom(obj, i + 1)

\* pushData.length >= 2 && typeof pushData[1] === "string"
HasStringPayload(pushData) == pushData.t = "arr" /\ Size(pushData) >= 2 /\ At(pushData, 2).t = "str"

\* contentReferences.set(key, content) on a Map kept in insertion order
MapSet(refs, key, content) ==
    IF \E k \in 1..Len(refs) : refs[k][1] = key
    THEN [k \in 1..Len(refs) |-> IF refs[k][1] = key THEN <<key, content>> ELSE refs[k]]
    ELSE Append(refs, <<key, content>>)

RECURSIVE DetailScanAborting(_, _, _, _)
\* a loop that a push call which cannot be parsed ends
DetailScanAborting(push, i, newsData, refs) ==
    IF i > Len(push) \/ push[i] = Bad THEN [newsData |-> newsData, refs |-> refs]
    ELSE IF HasStringPayload(push[i]) /\ IsMarker(At(push[i], 2))
    THEN IF i + 1 <= Len(push) /\ HasStringPayload(push[i + 1])
         THEN DetailScanAborting(push, i + 1, newsData,
                                 MapSet(refs, MarkerKey[At(push[i], 2).s], At(push[i + 1], 2).s))
         ELSE DetailScanAborting(push, i + 1, newsData, refs)
    ELSE IF HasStringPayload(push[i]) /\ HasPrefix(At(push[i], 2))
    THEN LET found == searchForNewsDataInObject(At(At(push[i], 2), 1))
         IN  DetailScanAborting(push, i + 1, IF Truthy(found) THEN found ELSE newsData, refs)
    ELSE DetailScanAborting(push, i + 1, newsData, refs)

RECURSIVE DetailScan(_, _, _, _)
\* the loop of parseNewsDetailFromHtml over the push calls: the news data found last and
\* the content references; a push call that cannot be parsed is skipped
DetailScan(push, i, newsData, refs) ==
    IF i > Len(push) THEN [newsData |-> newsData, refs |-> refs]
    ELSE IF push[i] = Bad THEN DetailScan(push, i + 1, newsData, refs)
    ELSE IF HasStringPayload(push[i]) /\ IsMarker(At(push[i], 2))
    THEN IF i + 1 <= Len(push) /\ HasStringPayload(push[i + 1])
         THEN DetailScan(push, i + 1, newsData,
                         MapSet(refs, MarkerKey[At(push[i], 2).s], At(push[i + 1], 2).s))
         ELSE DetailScan(push, i + 1, newsData, refs)
    ELSE IF HasStringPayload(push[i]) /\ HasPrefix(At(push[i], 2))
    THEN LET found == searchForNewsDataInObject(At(At(push[i], 2), 1))
         IN  DetailScan(push, i + 1, IF Truthy(found) THEN found ELSE newsData, refs)
    ELSE DetailScan(push, i + 1, newsData, refs)

\* the content the references give for a description: that of the first reference the
\* description includes, else that of the first reference, else none
RECURSIVE FirstMentioned(_, _, _)
FirstMentioned(refs, k, description) ==
    IF k > Len(refs) THEN ""
    ELSE IF DescriptionIncludes(description, refs[k][1]) THEN refs[k][2]
    ELSE FirstMentioned(refs, k + 1, description)

ContentData(refs, description) ==
    LET byReference == IF Truthy(description) THEN FirstMentioned(refs, 1, description.s) ELSE ""
    IN  IF byReference = "" /\ Len(refs) > 0 THEN refs[1][2] ELSE byReference

NullDetail == [NoDetail EXCEPT !.kind = "null"]

\* NLobbyApi.parseNewsDetailFromHtml
parseNewsDetailFromHtml(push, newsId) ==
    LET scan == DetailScan(push, 1, JNull, << >>)
        newsData == scan.newsData
        description == Get(newsData, "description")
        decoded == decodeHtmlContent(ContentData(scan.refs, description))
    IN  IF Len(push) = 0 \/ ~Truthy(newsData) THEN NullDetail
        ELSE IF Truthy(description) /\ description.t # "str" THEN NullDetail
        ELSE [kind |-> "detail", message |-> << >>,
              id |-> IF Truthy(Get(newsData, "id")) THEN toString(Get(newsData, "id")) ELSE newsId,
              title |-> IF Truthy(Get(newsData, "title")) THEN toString(Get(newsData, "title"))
                        ELSE "No Title",
              content |-> IF decoded # "" THEN decoded
                          ELSE IF Truthy(description) THEN description.s ELSE "",
              description |-> IF description.t = "str" THEN description.s ELSE "",
              url |-> <<BaseUrl, "/news/", newsId>>]

DetailError(message) == [NoDetail EXCEPT !.kind = "threw", !.message = message]

\* NLobbyApi.getNewsDetail, from the fetched page on
getNewsDetail(push, newsId) ==
    LET newsDetail == parseNewsDetailFromHtml(push, newsId)
    IN  IF newsDetail.kind = "detail" THEN newsDetail
        ELSE DetailError(<<"Failed to parse news detail from HTML for news ID: ", newsId>>)

\* the reply of the get_news_detail handler
detailReply(out) ==
    IF out.kind = "detail" THEN out
    ELSE [NoDetail EXCEPT !.kind = "error", !.message = <<"Error: ">> \o out.message]

MarkFailureLogged(newsId) == <<"logger.error", "Failed to mark news as read", newsId>>

\* a handler in which a failed mark-as-read write fails the whole call
afterMarkFailing(ok, newsDetail, newsId) ==
    [reply |-> IF ok THEN detailReply(newsDetail)
               ELSE detailReply(DetailError(<<"Request failed with status code 500">>)),
     logged |-> << >>]

\* the handler after the mark-as-read request: the inner catch logs a failure, and the
\* detail is the answer either way
afterMark(ok, newsDetail, newsId) ==
    [reply |-> detailReply(newsDetail),
     logged |-> IF ok THEN << >> ELSE << MarkFailureLogged(newsId) >>]

\* the largest number of push calls in a detail page
MaxFragments == 3

RecordA(description) ==
    JObj(<< <<"id", Str("7")>>, <<"title", Str("A")>>, <<"description", Str(description)>> >>)

\* [1, "5:[[\"$\",\"$L1\",null,{\"news\":[{...}]}]]"]
FragNewsList == JArr(<< JNum("1"), StrOf("5:[[..[]..]]", "5", Component(JArr(<<RecordA("see 9:T5,")>>))) >>)

\* [1, "5:[[\"$\",\"$L1\",null,{\"news\":{...}}]]"]
FragNewsObject == JArr(<< JNum("1"), StrOf("5:[[..{}..]]", "5", Component(RecordA("see 9:T5,"))) >>)

FragRecordPlain == JArr(<< JNum("1"), StrOf("6:{..}", "6", RecordA("plain")) >>)

FragRecordOther == JArr(<< JNum("1"), StrOf("7:{..}", "7", RecordA("$12:T7")) >>)

FragMarker9 == JArr(<< JNum("1"), StrOf("9:T5,", "9", Bad) >>)

FragMarker12 == JArr(<< JNum("1"), StrOf("12:T7,", "12", Bad) >>)

FragHello9 == JArr(<< JNum("1"), StrOf("9:Hello", "9", Bad) >>)

FragHello == JArr(<< JNum("1"), Str("Hello") >>)

FragEscaped == JArr(<< JNum("1"), Str("a\\u003cb") >>)

FragNumber == JArr(<< JNum("1"), JNum("2") >>)

FragmentCases ==
    {Bad, FragNewsList, FragNewsObject, FragRecordPlain, FragRecordOther, FragMarker9,
     FragMarker12, FragHello9, FragHello, FragEscaped, FragNumber}

DetailPages == UNION { [1..n -> FragmentCases] : n \in 0..MaxFragments }

NewsIds == {"7", "42"}

\* get_news_detail is called: getNewsDetail requests /news/{id}
DetailCall ==
    /\ detPc = "idle"
    /\ \E newsId \in NewsIds, markAsRead \in BOOLEAN :
          /\ detArgs' = [newsId |-> newsId, markAsRead |-> markAsRead]
          /\ detLog' = << <<"GET", "/news/", newsId>> >>
    /\ detPc' = "fetching"
    /\ UNCHANGED <<detPage, detOut, detReply>>
    /\ UNCHANGED notDetail

\* the page arrives and is parsed; with a detail in hand and markAsRead set, the
\* mark-as-read request goes out, else the tool answers
DetailFetched ==
    /\ detPc = "fetching"
    /\ \E push \in DetailPages :
          LET out == getNewsDetail(push, detArgs.newsId)
          IN  /\ detPage' = push
              /\ detOut' = out
              /\ IF out.kind = "detail" /\ detArgs.markAsRead
                 THEN /\ detPc' = "marking"
                      /\ detLog' = Append(detLog, <<"POST", "/api/trpc/news.upsertBrowsingHistory", detArgs.newsId>>)
                      /\ UNCHANGED detReply
                 ELSE /\ detPc' = "done"
                      /\ detReply' = detailReply(out)
                      /\ UNCHANGED detLog
    /\ UNCHANGED detArgs
    /\ UNCHANGED notDetail

\* fetchRenderedHtml throws
DetailFetchFails ==
    /\ detPc = "fetching"
    /\ \E message \in { <<"Request failed with status code 500">>, <<AccessDeniedMessage>> } :
          /\ detOut' = DetailError(message)
          /\ detReply' = detailReply(DetailError(message))
    /\ detPc' = "done"
    /\ UNCHANGED <<detArgs, detPage, detLog>>
    /\ UNCHANGED notDetail

\* the mark-as-read request ends: a failure is logged, and the detail is the answer
MarkResponse ==
    /\ detPc = "marking"
    /\ \E ok \in BOOLEAN :
          LET after == afterMark(ok, detOut, detArgs.newsId)
          IN  /\ detLog' = detLog \o after.logged
              /\ detReply' = after.reply
    /\ detPc' = "done"
    /\ UNCHANGED <<detArgs, detPage, detOut>>
    /\ UNCHANGED notDetail

DetailNext == DetailCall \/ DetailFetched \/ DetailFetchFails \/ MarkResponse

SpecDetail == Init /\ [][DetailNext]_vars

-----------------------------------------------------------------------------
(* Required courses: the computed fields of transformEducationDataToCourses. *)
(* A number that may be null is << >> (null) or <<n>>.                       *)

Null == << >>

Num(n) == <<n>>

\* Math.round of the quotient n / d of two integers, d > 0: the nearest integer, a
\* tie going up.  The quotients of the model are computed exactly; the doubles of
\* the code agree with them for every denominator below 40.
MathRound(n, d) == (2 * n + d) \div (2 * d)

calculateProgressPercentageTruncating(report) ==
    IF report.allCount = 0 THEN 0 ELSE (report.count * 100) \div report.allCount

calculateProgressPercentage(report) ==
    IF report.allCount = 0 THEN 0 ELSE MathRound(report.count * 100, report.allCount)

\* detail.score !== null && detail.progress === 100
ScoreWithValue(detail) == detail.score # Null /\ detail.progress = 100

\* detail.score || 0
ScoreOrZero(detail) == IF detail.score = Null \/ detail.score = Num(0) THEN 0 ELSE detail.score[1]

RECURSIVE TotalScore(_)
TotalScore(details) ==
    IF details = << >> THEN 0 ELSE ScoreOrZero(Head(details)) + TotalScore(Tail(details))

calculateAverageScoreOfScored(reportDetails) ==
    LET scoresWithValues == SelectSeq(reportDetails, LAMBDA detail : detail.score # Null)
    IN  IF Len(scoresWithValues) = 0
        THEN Null
        ELSE Num(MathRound(TotalScore(scoresWithValues), Len(scoresWithValues)))

calculateAverageScore(reportDetails) ==
    LET scoresWithValues == SelectSeq(reportDetails, ScoreWithValue)
    IN  IF Len(scoresWithValues) = 0
        THEN Null
        ELSE Num(MathRound(TotalScore(scoresWithValues), Len(scoresWithValues)))

\* the loop body of transformEducationDataToCourses: the course with its computed fields
enhancedCourseOf(c) ==
    [kind |-> "course",
     report |-> c.report,
     reportDetails |-> c.reportDetails,
     progressPercentage |-> calculateProgressPercentage(c.report),
     averageScore |-> calculateAverageScore(c.reportDetails)]

MaxCount == 8

MaxDetails == 3

Reports == [count : 0..MaxCount, allCount : 0..MaxCount]

Detail(score, progress) == [score |-> score, progress |-> progress]

DetailCases ==
    {Detail(Num(80), 100), Detail(Null, 100), Detail(Num(60), 50), Detail(Num(81), 100),
     Detail(Num(0), 100), Detail(Null, 50)}

ReportDetails == UNION { [1..n -> DetailCases] : n \in 0..MaxDetails }

\* requiredCourse.getRequiredCourses answers with a course
CourseReceived ==
    /\ course = NoCourse
    /\ \E report \in Reports, reportDetails \in ReportDetails :
          course' = [kind |-> "course", report |-> report, reportDetails |-> reportDetails]
    /\ UNCHANGED enhancedCourse
    /\ UNCHANGED notCourse

\* transformEducationDataToCourses adds the computed fields
CourseTransformed ==
    /\ course # NoCourse
    /\ enhancedCourse = NoEnhancedCourse
    /\ enhancedCourse' = enhancedCourseOf(course)
    /\ UNCHANGED course
    /\ UNCHANGED notCourse

CourseNext == CourseReceived \/ CourseTransformed

SpecCourse == Init /\ [][CourseNext]_vars

-----------------------------------------------------------------------------
(* Browser login: the interactive_login tool, BrowserAuth.interactiveLogin *)
(* and the detection loop of waitForLoginCompletionWithRetry.              *)

maxRetries == 3

retryDelay == 2000

LoginErrorPrefix == "[ERROR] Interactive login failed: "

InteractiveLoginPrefix == "Interactive login failed: "

DetectionFailedPrefix == "Failed to detect login completion after 3 attempts: "

LoginError(message) == [kind |-> "error", message |-> <<LoginErrorPrefix>> \o message]

LoginSuccess == [kind |-> "success", message |-> <<"[SUCCESS] Successfully logged in to N Lobby!">>]

\* the catch of the detection loop after a failed attempt, with one attempt more
afterFailedAttemptOneMore(attempt, cause) ==
    IF attempt = maxRetries + 1
    THEN [pc |-> "done",
          reply |-> LoginError(<<InteractiveLoginPrefix, DetectionFailedPrefix, cause>>)]
    ELSE [pc |-> "delaying", reply |-> NoLoginReply]

\* the catch of the detection loop after a failed attempt: the last attempt throws, and the
\* error travels through the catch of interactiveLogin to the catch of the tool; an earlier
\* one goes on to the delay
afterFailedAttempt(attempt, cause) ==
    IF attempt = maxRetries
    THEN [pc |-> "done",
          reply |-> LoginError(<<InteractiveLoginPrefix, DetectionFailedPrefix, cause>>)]
    ELSE [pc |-> "delaying", reply |-> NoLoginReply]

\* what page.cookies() may hold when the login is detected
LoginBlobs ==
    { EmptyBlob, << <<NameSession, "a%2Fb">>, <<NameCsrf, "c1">> >>, << <<NameSession, "%">> >>,
      << <<NameOther, "o1">> >> }

\* BrowserAuth.close: the page, then the browser; an error of either is caught and
\* logged, and what was not closed yet stays open
closeOf(browser, ok) ==
    IF browser = "none" THEN "none" ELSE IF ok THEN "closed" ELSE browser

\* an end of the tool that leaves the browser alone
LoginEndsOpen(browser, answer) ==
    /\ loginPc' = "done"
    /\ loginBrowser' = browser
    /\ loginReply' = answer
    /\ UNCHANGED loginClosed

\* the end of the tool, on its try path and in its catch: close, then the answer
LoginEnds(browser, answer) ==
    /\ loginPc' = "done"
    /\ loginClosed' = TRUE
    /\ \E ok \in BOOLEAN : loginBrowser' = closeOf(browser, ok)
    /\ loginReply' = answer

LoginGoesOn(pc, browser) ==
    /\ loginPc' = pc
    /\ loginBrowser' = browser
    /\ UNCHANGED <<loginReply, loginClosed>>

\* the tool is called: initializeBrowser
LoginCall ==
    /\ loginPc = "idle"
    /\ \E ok \in BOOLEAN :
          IF ok
          THEN LoginGoesOn("navigating", "connected")
          ELSE LoginEnds(loginBrowser,
                         LoginError(<<"Failed to initialize browser for authentication">>))
    /\ UNCHANGED <<loginAttempt, loginLog>>
    /\ UNCHANGED <<sessionVars, notLogin>>

\* interactiveLogin: the health check and the navigation to the portal
LoginNavigate ==
    /\ loginPc = "navigating"
    /\ \E ok \in BOOLEAN :
          IF ok
          THEN /\ LoginGoesOn("detecting", loginBrowser)
               /\ loginAttempt' = 1
          ELSE /\ LoginEnds(loginBrowser, LoginError(<<InteractiveLoginPrefix, "net::ERR_FAILED">>))
               /\ UNCHANGED loginAttempt
    /\ UNCHANGED loginLog
    /\ UNCHANGED <<sessionVars, notLogin>>

\* the browser crashes or is disconnected while the user logs in
BrowserCrash ==
    /\ loginPc \in {"detecting", "delaying"}
    /\ loginBrowser = "connected"
    /\ loginBrowser' = "crashed"
    /\ UNCHANGED <<loginPc, loginAttempt, loginLog, loginReply, loginClosed>>
    /\ UNCHANGED <<sessionVars, notLogin>>

\* one iteration of the loop of waitForLoginCompletionWithRetry: a crashed browser is
\* started again, then waitForFunction runs until the login shows or the time is out
DetectionAttempt ==
    /\ loginPc = "detecting"
    /\ \E outcome \in {"detected", "timeout", "reinitFailed"} :
          LET browser == IF outcome = "reinitFailed" THEN "crashed" ELSE "connected"
              after == afterFailedAttempt(loginAttempt, outcome)
          IN  /\ outcome = "reinitFailed" => loginBrowser = "crashed"
              /\ loginLog' = Append(loginLog, <<"attempt", loginAttempt, outcome>>)
              /\ IF outcome = "detected" THEN LoginGoesOn("extracting", browser)
                 ELSE IF after.pc = "done" THEN LoginEnds(browser, after.reply)
                 ELSE LoginGoesOn(after.pc, browser)
    /\ UNCHANGED loginAttempt
    /\ UNCHANGED <<sessionVars, notLogin>>

\* the delay after a failed attempt, then the check of the page: a page that is out of
\* reach is replaced by a new one, and a failure of that replacement ends the loop
RetryDelay ==
    /\ loginPc = "delaying"
    /\ \E recovery \in {"ok", "stillCrashed", "newPage", "newPageFails"} :
          LET browser == IF recovery = "stillCrashed" THEN "crashed" ELSE "connected"
          IN  /\ recovery = "stillCrashed" => loginBrowser = "crashed"
              /\ loginLog' = Append(loginLog, <<"delay", retryDelay, recovery>>)
              /\ IF recovery = "newPageFails"
                 THEN /\ LoginEnds(browser, LoginError(<<InteractiveLoginPrefix, "net::ERR_FAILED">>))
                      /\ UNCHANGED loginAttempt
                 ELSE /\ LoginGoesOn("detecting", browser)
                      /\ loginAttempt' = loginAttempt + 1
    /\ UNCHANGED notLogin
    /\ UNCHANGED sessionVars

\* extractCookies throws
ExtractFails ==
    /\ loginPc = "extracting"
    /\ LoginEnds(loginBrowser,
                 LoginError(<<InteractiveLoginPrefix, "Failed to extract authentication cookies">>))
    /\ UNCHANGED <<loginAttempt, loginLog>>
    /\ UNCHANGED <<sessionVars, notLogin>>

\* extractCookies returns: the tool hands the blob to setCookies and answers
LoginExtracted ==
    /\ loginPc = "extracting"
    /\ SetCookiesFrom(LoginBlobs)
    /\ loginLog' = Append(loginLog, <<"setCookies", 0, "">>)
    /\ LoginEnds(loginBrowser, IF lastOp'.threw THEN LoginError(<<"URI malformed">>) ELSE LoginSuccess)
    /\ UNCHANGED loginAttempt
    /\ UNCHANGED notLogin

LoginNext ==
    LoginCall \/ LoginNavigate \/ BrowserCrash \/ DetectionAttempt \/ RetryDelay
    \/ ExtractFails \/ LoginExtracted

\* the tool is called on a new server, or after the operator has set cookies
LoginInit == Init \/ CallInit

SpecLogin == LoginInit /\ [][LoginNext]_vars

-----------------------------------------------------------------------------
(* The set_cookies tool.                                                   *)

SetCookiesDone ==
    [kind |-> "success",
     message |-> <<"Authentication cookies have been set. You can now access real N Lobby data.">>]

\* the answer of the tool: its text when setCookies returns, the McpError of the outer
\* catch of the CallTool handler when it throws
setCookiesReply(threw) ==
    IF threw
    THEN [kind |-> "mcpError", message |-> <<"Tool execution failed: ", "URI malformed">>]
    ELSE SetCookiesDone

\* set_cookies is called with a blob
SetCookiesTool ==
    /\ \E cookies \in Blobs :
          /\ SetCookiesFrom({cookies})
          /\ setArgs' = cookies
    /\ setReply' = setCookiesReply(lastOp'.threw)
    /\ UNCHANGED notCookieTool

SpecCookieTool == Init /\ [][SetCookiesTool]_vars

-----------------------------------------------------------------------------
(* The diagnostic operations: getCookieStatus, healthCheck, debugConnection *)
(* and testPageContent.                                                     *)

\* what NLobbyApi.getCookieStatus reads from the store (the report also gives lengths)
getCookieStatus ==
    [hasHttpCookies |-> httpCookie # EmptyBlob,
     hasTrpcCookies |-> allCookies # EmptyBlob,
     hasNextAuthCookies |-> isAuthenticated(nextAuthCookies),
     sessionToken |-> nextAuthCookies.sessionToken # NoToken,
     csrfToken |-> nextAuthCookies.csrfToken # NoToken,
     callbackUrl |-> nextAuthCookies.callbackUrl # NoToken]

\* the names of healthCheckTests, in their order
healthCheckTests ==
    <<"tRPC lightweight endpoint", "tRPC batch health check", "HTML news page access",
      "Next.js metadata extraction", "Basic server connectivity">>

\* what a probe can meet. threw: the request of the probe is rejected
\* 1: getUnreadNewsCount gives a value; 2: the first of the three methods of
\* TRPCClient.healthCheck that succeeds (0: none); 3: the /news response; 4: the /news page
\* of extractNextJsMetadata and its preflight request; 5: the response to GET /
ProbeObservations(i) ==
    CASE i = 1 -> { [threw |-> t, isNumber |-> b, n |-> n] :
                        t \in BOOLEAN, b \in BOOLEAN, n \in {-1, 0, 3} }
      [] i = 2 -> { [threw |-> FALSE, firstOk |-> k] : k \in 0..3 }
      [] i = 3 -> { [threw |-> t, status |-> st, isString |-> b, hasLoginIndicators |-> l,
                     hasNewsContent |-> n] :
                        t \in BOOLEAN, st \in {200, 204}, b \in BOOLEAN, l \in BOOLEAN,
                        n \in BOOLEAN }
      [] i = 4 -> { [threw |-> t, actionInPage |-> a, preflight |-> pf] :
                        t \in BOOLEAN, a \in BOOLEAN,
                        pf \in {"answered", "rejected with next-action", "rejected"} }
      [] i = 5 -> { [threw |-> t, status |-> st] : t \in BOOLEAN, st \in {200, 204} }

\* TRPCClient.healthCheck: true at the first method that does not throw
trpcHealthCheck(firstOk) == firstOk > 0

\* NLobbyApi.extractNextJsMetadata returns metadata (not null): the router state has a
\* default, the action comes from the page or from the headers of a rejected preflight
extractNextJsMetadata(obs) ==
    /\ ~obs.threw
    /\ obs.actionInPage \/ obs.preflight = "rejected with next-action"

\* the test functions of healthCheckTests: each catches what its request throws
ProbeResult(i, obs) ==
    CASE i = 1 -> ~obs.threw /\ obs.isNumber /\ obs.n >= 0
      [] i = 2 -> trpcHealthCheck(obs.firstOk)
      [] i = 3 -> /\ ~obs.threw /\ obs.status = 200 /\ obs.isString
                  /\ ~obs.hasLoginIndicators /\ obs.hasNewsContent
      [] i = 4 -> extractNextJsMetadata(obs)
      [] i = 5 -> ~obs.threw /\ obs.status = 200

\* the calls of TRPCClient.call a probe makes
ProbeCalls(i, obs) ==
    CASE i = 1 -> 1
      [] i = 2 -> IF obs.firstOk = 0 THEN 3 ELSE obs.firstOk
      [] OTHER -> 0

ProbeEntry(i, obs) ==
    <<"probe", healthCheckTests[i],
      IF ProbeResult(i, obs) THEN "passed" ELSE IF obs.threw THEN "threw" ELSE "failed">>

\* the final diagnostic of healthCheck, which is only logged
FinalDiagnostic ==
    LET st == getCookieStatus
    IN  <<"diagnostic", "",
          IF ~st.hasHttpCookies /\ ~st.hasNextAuthCookies /\ ~st.hasTrpcCookies THEN "none"
          ELSE IF st.hasHttpCookies /\ st.hasNextAuthCookies /\ st.hasTrpcCookies THEN "all"
          ELSE "partial">>

\* a loop that goes on to the next test after one that passed
afterProbeNoStop(i, passed) ==
    IF i = Len(healthCheckTests) THEN [pc |-> "done", step |-> 0, healthy |-> passed]
    ELSE [pc |-> "probing", step |-> i + 1, healthy |-> FALSE]

\* the loop of healthCheck after test i: return true at the first that passed, go on
\* after one that failed, return false after the last
afterProbe(i, passed) ==
    IF passed THEN [pc |-> "done", step |-> 0, healthy |-> TRUE]
    ELSE IF i = Len(healthCheckTests) THEN [pc |-> "done", step |-> 0, healthy |-> FALSE]
    ELSE [pc |-> "probing", step |-> i + 1, healthy |-> FALSE]

\* a step that ends the session at the remote procedure client
DiagGoesDroppingCookies(pc, step, log, out, calls) ==
    /\ diagPc' = pc
    /\ diagStep' = step
    /\ diagLog' = log
    /\ diagOut' = out
    /\ requestId' = requestId + calls
    /\ allCookies' = EmptyBlob
    /\ UNCHANGED <<diagOp, httpCookie, session, nextAuthCookies, lastApplied, httpPending, lastOp>>
    /\ UNCHANGED notDiag

\* a step of a diagnostic operation: nothing in it writes the store
DiagGoes(pc, step, log, out, calls) ==
    /\ diagPc' = pc
    /\ diagStep' = step
    /\ diagLog' = log
    /\ diagOut' = out
    /\ requestId' = requestId + calls
    /\ UNCHANGED <<diagOp, sessionVars>>
    /\ UNCHANGED notDiag

\* a diagnostic operation is called; getCookieStatus returns at once, debugConnection
\* starts its report with the status
DiagCall ==
    /\ diagPc = "idle"
    /\ \E op \in {"healthCheck", "debugConnection", "testPageContent", "getCookieStatus"} :
          /\ diagOp' = op
          /\ diagLog' = IF op = "getCookieStatus" THEN << >> ELSE << <<"status", "", "read">> >>
          /\ diagPc' = IF op = "getCookieStatus" THEN "done" ELSE "probing"
          /\ diagStep' = IF op = "getCookieStatus" THEN 0 ELSE 1
          /\ diagOut' = IF op = "getCookieStatus"
                        THEN [NoDiag EXCEPT !.kind = "status", !.status = getCookieStatus]
                        ELSE IF op = "debugConnection"
                        THEN [NoDiag EXCEPT !.status = getCookieStatus]
                        ELSE NoDiag
    /\ UNCHANGED <<requestId, sessionVars>>
    /\ UNCHANGED notDiag

\* healthCheck runs its next test
HealthProbe ==
    /\ diagPc = "probing"
    /\ diagOp = "healthCheck"
    /\ \E obs \in ProbeObservations(diagStep) :
          LET after == afterProbe(diagStep, ProbeResult(diagStep, obs))
              entry == ProbeEntry(diagStep, obs)
          IN  DiagGoes(after.pc, after.step,
                       IF after.pc = "done" /\ ~after.healthy
                       THEN diagLog \o <<entry, FinalDiagnostic>> ELSE Append(diagLog, entry),
                       IF after.pc = "done"
                       THEN [NoDiag EXCEPT !.kind = "boolean", !.healthy = after.healthy]
                       ELSE diagOut,
                       ProbeCalls(diagStep, obs))

\* the requests of debugConnection: the endpoint, then news.getUnreadNewsCount through the
\* HTTP client; a rejected request is a line of the report
DebugEndpoints == {"/news", "/"}

RequestOutcomes == {"200", "401", "rejected"}

DebugRequest ==
    /\ diagPc = "probing"
    /\ diagOp = "debugConnection"
    /\ \E endpoint \in DebugEndpoints, outcome \in RequestOutcomes :
          LET url == IF diagStep = 1 THEN endpoint ELSE "/api/trpc/news.getUnreadNewsCount"
              line == <<"GET", url, outcome>>
              st == getCookieStatus
              advice == IF ~st.hasHttpCookies /\ ~st.hasNextAuthCookies
                        THEN << <<"advice", "", "Run interactive_login to authenticate">> >>
                        ELSE IF st.hasHttpCookies /\ st.hasNextAuthCookies
                        THEN << <<"advice", "", "Authentication looks good">> >>
                        ELSE << >>
          IN  IF diagStep = 1
              THEN DiagGoes("probing", 2, Append(diagLog, line),
                            [diagOut EXCEPT !.lines = Append(@, line)], 0)
              ELSE DiagGoes("done", 0, Append(diagLog, line),
                            [diagOut EXCEPT !.kind = "report",
                                            !.lines = Append(@, line) \o advice], 0)

\* testPageContent: one request, whose rejection is the text returned
TestPageResponse ==
    /\ diagPc = "probing"
    /\ diagOp = "testPageContent"
    /\ \E endpoint \in DebugEndpoints, outcome \in RequestOutcomes, isString \in BOOLEAN :
          LET line == <<"GET", endpoint, outcome>>
              text == IF outcome # "200" THEN <<"Error", endpoint, outcome>>
                      ELSE IF isString THEN <<"Status", endpoint, outcome>>
                      ELSE <<"Non-string response received", endpoint, outcome>>
          IN  DiagGoes("done", 0, Append(diagLog, line),
                       [NoDiag EXCEPT !.kind = "text", !.lines = <<text>>], 0)

DiagStep == DiagCall \/ HealthProbe \/ DebugRequest \/ TestPageResponse

DiagNext == DiagStep \/ SetCookiesInFlight

DiagInit == Init \/ CallInit

SpecDiag == DiagInit /\ [][DiagNext]_vars

-----------------------------------------------------------------------------
(* The entity-shaped-array search on its own: objects whose keys hold      *)
(* arrays, in every order of the keys.                                     *)

MaxKeys == 3

\* the priorityKeys of searchForNewsInData, in their order
priorityKeys ==
    <<"news", "announcements", "data", "items", "list", "content", "notifications", "posts",
      "feed", "results">>

SearchKeys == {"news", "items", "results", "meta"}

\* an array of one record that names the key it is under
RecordsUnder(key) == JArr(<< JObj(<< <<"id", Str(key)>>, <<"title", Str("T")>> >>) >>)

SearchValues(key) == { RecordsUnder(key), JArr(<< JNum("1") >>) }

\* the objects with up to MaxKeys of the keys, in every order
SearchObjects ==
    { JObj(entries) : entries \in
        UNION { { e \in [1..n -> UNION { {<<k, v>> : v \in SearchValues(k)} : k \in SearchKeys }] :
                    \A i, j \in 1..n : i # j => e[i][1] # e[j][1] } : n \in 0..MaxKeys } }

\* a caller hands an object to the search
SearchCall ==
    /\ searchIn = JNull
    /\ searchIn' \in SearchObjects
    /\ UNCHANGED searchOut
    /\ UNCHANGED notSearch

\* the search returns
SearchReturn ==
    /\ searchIn # JNull
    /\ ~searchOut.done
    /\ searchOut' = [done |-> TRUE, found |-> searchForNewsInData(searchIn)]
    /\ UNCHANGED searchIn
    /\ UNCHANGED notSearch

SearchNext == SearchCall \/ SearchReturn

SpecSearch == Init /\ [][SearchNext]_vars

-----------------------------------------------------------------------------
(* Properties.                                                             *)

\* the number of the first strategy that extracts records from the page, 0 when none does
FirstSuccess ==
    LET S == { k \in 1..NumStrategies : Len(StrategyResult(k, html, clock)) > 0 }
    IN  IF S = {} THEN 0 ELSE CHOOSE k \in S : \A j \in S : k <= j

\* C1: parseNewsFromHtml runs its strategies in the order 1..5, runs a strategy only when
\* every earlier one extracted nothing, and returns the records of the first strategy that
\* extracted any; when strategy 1 extracts records it is the only strategy run.
C1_CascadeShortCircuit ==
    /\ \A i \in 1..Len(parseRan) :
          /\ parseRan[i] = i
          /\ \A j \in 1..(i - 1) : Len(StrategyResult(j, html, clock)) = 0
    /\ parseOut.kind # "none" =>
          /\ parseOut.kind = "list"
          /\ IF FirstSuccess = 0
             THEN Len(parseRan) = NumStrategies /\ parseOut.items = << >>
             ELSE /\ Len(parseRan) = FirstSuccess
                  /\ parseOut.items = StrategyResult(FirstSuccess, html, clock)
          /\ Len(StrategyResult(1, html, clock)) > 0 => parseRan = <<1>>

\* strategy 1 has succeeded on a page on which strategy 2 would have given other records
C1_Witness ==
    /\ newsPc = "parsed"
    /\ parseRan = <<1>>
    /\ Len(parseOut.items) > 0
    /\ Len(StrategyResult(2, html, clock)) > 0
    /\ StrategyResult(2, html, clock) # parseOut.items

\* a response that makes an attempt of call() fail: a transport error or an in-band error object
IsFailure(resp) == resp.status # 200 \/ resp.inBandError

\* C2: call() attempts GET first; a failed GET is followed by exactly one POST of the same
\* method, whose result call() returns with no error when it succeeds; a GET that succeeds
\* is followed by no POST.
C2_GetThenPostFallback ==
    \A c \in Callers :
        LET log == callLog[c]
        IN  /\ Len(log) <= 2
            /\ Len(log) >= 1 => log[1].verb = "GET"
            /\ Len(log) = 2 =>
                  /\ log[2].verb = "POST"
                  /\ log[2].method = log[1].method
                  /\ IsFailure(log[1].response)
            /\ (Len(log) >= 1 /\ log[1].response # NoResponse) =>
                  IF IsFailure(log[1].response)
                  THEN Len(log) = 2
                  ELSE /\ Len(log) = 1
                       /\ callPc[c] = "returned"
                       /\ callOut[c] = [value |-> log[1].response.result, error |-> NoError]
            /\ (Len(log) = 2 /\ log[2].response # NoResponse /\ ~IsFailure(log[2].response)) =>
                  /\ callPc[c] = "returned"
                  /\ callOut[c] = [value |-> log[2].response.result, error |-> NoError]

\* a call has returned the result of its POST attempt after a transport error on its GET
C2_Witness ==
    \E c \in Callers :
        /\ callPc[c] = "returned"
        /\ Len(callLog[c]) = 2
        /\ callLog[c][1].response.status = 500
        /\ callOut[c].value = callLog[c][2].response.result

\* C3: a 401 answered to the GET attempt of an authenticated client ends the call with the
\* session-expired error, and no POST attempt is made.
C3_NoRetryAfter401 ==
    \A c \in Callers :
        (/\ isAuthenticated(nextAuthCookies)
         /\ Len(callLog[c]) >= 1
         /\ callLog[c][1].response.status = 401)
        => /\ Len(callLog[c]) = 1
           /\ callPc[c] = "threw"
           /\ callOut[c].error = PlainError(AuthExpiredRpc)

\* C4: a setCookies call with an empty or whitespace-only blob leaves the Cookie header of
\* the HTTP client, the blob of the RPC client and the derived tokens as they were.
C4_EmptyBlobChangesNothing ==
    [][(lastOp'.op = "setCookies" /\ lastOp'.blank)
        => /\ UNCHANGED <<httpCookie, nextAuthCookies, allCookies>>
           /\ isAuthenticated(nextAuthCookies') = isAuthenticated(nextAuthCookies)]_vars

\* an empty blob has been passed to setCookies while an authenticated session was held
C4_Witness ==
    /\ lastOp.op = "setCookies" /\ lastOp.blank /\ lastOp.authBefore
    /\ isAuthenticated(nextAuthCookies)
    /\ httpCookie # EmptyBlob /\ allCookies # EmptyBlob

\* the value a blob gives to the cookie of a name: that of its last segment of that name
\* with a non-empty value, decoded; none when it has no such segment
TokenIn(blob, name) ==
    LET S == { i \in 1..Len(blob) : blob[i][1] = name /\ blob[i][2] # "" }
    IN  IF S = {} THEN NoToken
        ELSE decodeURIComponent(blob[CHOOSE i \in S : \A j \in S : j <= i][2])

\* C5: the derived tokens are those of the blob of the last setCookies call that ran to
\* completion, nothing of an earlier blob survives, and isAuthenticated() holds iff
\* that blob has a session-token cookie (one with a value).
C5_TokensOfLatestBlob ==
    /\ nextAuthCookies = [sessionToken |-> TokenIn(lastApplied, NameSession),
                          csrfToken |-> TokenIn(lastApplied, NameCsrf),
                          callbackUrl |-> TokenIn(lastApplied, NameCallback)]
    /\ isAuthenticated(nextAuthCookies)
         <=> \E i \in 1..Len(lastApplied) :
                lastApplied[i][1] = NameSession /\ lastApplied[i][2] # ""

\* a blob without session token has been applied over a session that had one
C5_Witness ==
    /\ lastOp.op = "setCookies" /\ ~lastOp.blank /\ ~lastOp.threw /\ lastOp.authBefore
    /\ ~isAuthenticated(nextAuthCookies)
    /\ nextAuthCookies.csrfToken # NoToken

\* C6: once a blob has been applied, every request of the HTTP client and of the RPC
\* client carries that blob as its Cookie header.
C6_RawBlobOnEveryRequest ==
    (lastOp.op \in {"httpSend", "rpcSend"} /\ lastApplied # EmptyBlob)
    => lastOp.headers.cookie = lastApplied

\* C7: a 401 answered to the HTTP client after cookies have been applied is raised as the
\* authentication-expired error.
C7_Transport401IsAuthExpired ==
    (lastOp.op = "httpResponse" /\ lastOp.status = 401 /\ lastApplied # EmptyBlob)
    => lastOp.error = PlainError(AuthExpiredTransport)

C9_EmptyResultNotException ==
    (newsPc \in {"finished", "replied"} /\ Len(parseRan) = NumStrategies
        /\ parseOut = [kind |-> "list", items |-> << >>])
    => /\ newsOut.kind = "returned"
       /\ newsOut.items = << >>
       /\ newsPc = "replied" => reply = "content"

\* what the sweep is claimed to do once the call of its current candidate has settled
SweepClaimedStep ==
    LET log == callLog["sweep"]
        last == log[Len(log)].response
        value == callOut["sweep"].value
        more == Len(sweepTried) < Len(Endpoints)
    IN  IF callPc["sweep"] = "returned" /\ IsArray(value) /\ ArrayLength(value) > 0
        THEN sweepPc' = "done" /\ sweepResult' = value /\ sweepTried' = sweepTried
        ELSE IF callPc["sweep"] = "returned" /\ IsObject(value)
                /\ \E i \in 1..Len(ObjectKeys(value)) :
                       ArrayLength(Property(value, ObjectKeys(value)[i])) > 0
        THEN /\ sweepPc' = "done" /\ sweepTried' = sweepTried
             /\ \E i \in 1..Len(ObjectKeys(value)) :
                   /\ sweepResult' = Property(value, ObjectKeys(value)[i])
                   /\ ArrayLength(sweepResult') > 0
        ELSE IF callPc["sweep"] = "threw" /\ last.status = 401
        THEN sweepPc' = "done" /\ sweepResult' = "null" /\ sweepTried' = sweepTried
        ELSE IF more
        THEN sweepPc' = "calling" /\ sweepTried' = Append(sweepTried, Endpoints[Len(sweepTried) + 1])
        ELSE sweepPc' = "done" /\ sweepResult' = "null" /\ sweepTried' = sweepTried

\* C10: the sweep tries its candidates in list order, returns at the first non-empty array
\* (or non-empty array property of an object), stops without trying a further candidate
\* when a candidate is answered 401, goes on after 404, 403, 5xx or an empty array, and
\* returns null when the candidates are exhausted.
C10_SweepStopsOn401 ==
    [][(sweepPc = "calling" /\ callPc["sweep"] \in {"returned", "threw"}) => SweepClaimedStep]_vars

\* the range of a call is the one the caller supplied: both dates are given and, in
\* get_calendar_events, no period overrides them
SuppliedRange ==
    /\ calPc # "idle"
    /\ calArgs.from_date # "" /\ calArgs.to_date # ""
    /\ calTool = "get_calendar_events" => calArgs.period = ""

\* C11: createDateRange throws exactly when a date is unparsable or `to` is less than 24
\* hours after `from`; a call of get_calendar_events or test_calendar_endpoints with such
\* a supplied range ends in an error with no request sent, and a request sent for a
\* supplied range carries the two parsed dates, at least a day apart.
C11_InvalidRangeRejectedBeforeNetwork ==
    /\ \A f \in ArgDates, t \in ArgDates :
          createDateRange(f, t).threw
             <=> (NewDate(f) = NaN \/ NewDate(t) = NaN \/ NewDate(t) - NewDate(f) < 24 * 60 * 60 * 1000)
    /\ SuppliedRange =>
          IF \/ NewDate(calArgs.from_date) = NaN
             \/ NewDate(calArgs.to_date) = NaN
             \/ NewDate(calArgs.to_date) - NewDate(calArgs.from_date) < 24 * 60 * 60 * 1000
          THEN calSent = << >> /\ calPc = "done" /\ calReply.kind = "error"
          ELSE \A i \in 1..Len(calSent) :
                  /\ calSent[i].from = NewDate(calArgs.from_date)
                  /\ calSent[i].to = NewDate(calArgs.to_date)
    /\ \A i \in 1..Len(calSent) : calSent[i].from # NaN /\ calSent[i].to # NaN

\* test_calendar_endpoints has rejected a range whose end is later than its start, but by
\* less than a day, without sending a request
C11_Witness ==
    /\ calPc = "done"
    /\ calTool = "test_calendar_endpoints"
    /\ calArgs.from_date = "2024-01-15T10:00:00Z" /\ calArgs.to_date = "2024-01-16T06:00:00Z"
    /\ calSent = << >>
    /\ calReply = CalError(calTool, TooShortMessage)

\* the event is an all-day event: the nested shape with dates only
AllDay(event) ==
    /\ event.startDateTime = ""
    /\ event.start.present /\ event.start.dateTime = "" /\ event.start.date \in Dates
    /\ event.end.present /\ event.end.dateTime = "" /\ event.end.date \in Dates

\* C14: an all-day event is normalized to start at 00:00:00 of its start date and to end
\* at 23:59:59 of the day before its end date.
C14_AllDayEndExclusive ==
    (calTool = "get_calendar_events" /\ calReply.kind = "content") =>
        \A i \in 1..Len(calResp.events) :
            AllDay(calResp.events[i]) =>
               /\ calReply.schedule[i].startTime = DayNumber[calResp.events[i].start.date] * DayMs
               /\ calReply.schedule[i].endTime =
                     (DayNumber[calResp.events[i].end.date] - 1) * DayMs
                        + (23 * 3600 + 59 * 60 + 59) * 1000

\* the event from 2024-01-15 to 2024-01-17 has been normalized to end on 2024-01-16
C14_Witness ==
    /\ calReply.kind = "content"
    /\ \E i \in 1..Len(calResp.events) :
          /\ calResp.events[i].start.date = "2024-01-15"
          /\ calResp.events[i].end.date = "2024-01-17"
          /\ calReply.schedule[i].startTime = NewDate("2024-01-15")
          /\ calReply.schedule[i].endTime = NewDate("2024-01-16") + LastSecondMs

\* the end of an upstream event is missing or cannot be parsed
EndMissingOrInvalid(event) ==
    IF event.startDateTime # ""
    THEN event.endDateTime = "" \/ NewDate(event.endDateTime) = NaN
    ELSE \/ ~event.end.present
         \/ event.end.dateTime = "" /\ event.end.date = ""
         \/ event.end.dateTime # "" /\ NewDate(event.end.dateTime) = NaN
         \/ event.end.dateTime = "" /\ event.end.date # "" /\ event.end.date \notin Dates

\* C15: an event, flat or nested, whose end is missing or invalid is normalized to end
\* one hour after its start.
C15_EndDefaultsToStartPlusHour ==
    (calTool = "get_calendar_events" /\ calReply.kind = "content") =>
        \A i \in 1..Len(calResp.events) :
            EndMissingOrInvalid(calResp.events[i]) =>
                calReply.schedule[i].endTime = Plus(calReply.schedule[i].startTime, 60 * 60 * 1000)

\* the positions of the marker fragments of a page that a fragment with a string payload
\* follows
MarkerPositions(push) ==
    { i \in 1..(Len(push) - 1) :
        /\ push[i] # Bad /\ HasStringPayload(push[i]) /\ IsMarker(At(push[i], 2))
        /\ push[i + 1] # Bad /\ HasStringPayload(push[i + 1]) }

\* the fragments of the example: the list with record 7, then the payload "9:Hello"
ExamplePage == <<FragNewsList, FragHello9>>

\* C12: the content of the detail is the payload that follows a marker fragment whose
\* marker occurs in the description of the record; when no marker occurs in it, the
\* payload of the first side-table entry; and for the fragments of the example, with
\* news id 7, the content is "Hello".
C12_MarkerResolution ==
    detOut.kind = "detail" =>
        LET refs == MarkerPositions(detPage)
            hits == { i \in refs : DescriptionIncludes(detOut.description,
                                                       MarkerKey[At(detPage[i], 2).s]) }
            first == CHOOSE i \in refs : \A j \in refs : i <= j
        IN  /\ hits # {} =>
                 \E i \in hits : detOut.content = decodeHtmlContent(At(detPage[i + 1], 2).s)
            /\ (hits = {} /\ refs # {}) =>
                 \E i \in refs :
                    /\ At(detPage[i], 2).s = At(detPage[first], 2).s
                    /\ detOut.content = decodeHtmlContent(At(detPage[i + 1], 2).s)
            /\ (detPage = ExamplePage /\ detArgs.newsId = "7") => detOut.content = "Hello"

\* C19: the mark-as-read request is sent only when markAsRead is set, after the page has
\* been fetched and parsed into a detail; whether the request fails or not, the detail
\* is the answer of the tool, and a failure is logged.
C19_MarkAsReadAfterRead ==
    /\ \A k \in 1..Len(detLog) :
          detLog[k][1] = "POST" =>
             /\ k = 2 /\ detLog[1][1] = "GET"
             /\ detArgs.markAsRead
             /\ detOut.kind = "detail"
    /\ \A k \in 1..Len(detLog) : detLog[k][1] = "logger.error" => k = 3 /\ detLog[2][1] = "POST"
    /\ (detPc = "done" /\ detOut.kind = "detail") => detReply = detOut
    /\ (detPc = "done" /\ detOut.kind = "detail" /\ detArgs.markAsRead) => Len(detLog) >= 2
    /\ (detPc = "done" /\ ~detArgs.markAsRead) => Len(detLog) = 1

\* the mark-as-read request has failed and the detail has been returned all the same
C19_Witness ==
    /\ detPc = "done"
    /\ Len(detLog) = 3 /\ detLog[3] = MarkFailureLogged(detArgs.newsId)
    /\ detReply.kind = "detail" /\ detReply.content # ""

RECURSIVE SumOfScores(_)
SumOfScores(details) ==
    IF details = << >> THEN 0 ELSE Head(details).score[1] + SumOfScores(Tail(details))

\* r is an integer nearest to n / d
Nearest(r, n, d) == 2 * d * r - d <= 2 * n /\ 2 * n <= 2 * d * r + d

C17_AverageScore ==
    enhancedCourse # NoEnhancedCourse =>
        LET qualifying == SelectSeq(enhancedCourse.reportDetails,
                                    LAMBDA e : e.score # << >> /\ e.progress = 100)
            a == enhancedCourse.averageScore
        IN  /\ Len(qualifying) = 0 => a = << >>
            /\ Len(qualifying) # 0 =>
                  /\ Len(a) = 1
                  /\ Nearest(a[1], SumOfScores(qualifying), Len(qualifying))
            /\ enhancedCourse.reportDetails =
                  << [score |-> <<80>>, progress |-> 100], [score |-> << >>, progress |-> 100],
                     [score |-> <<60>>, progress |-> 50] >> => a = <<80>>

C17_Witness ==
    /\ enhancedCourse # NoEnhancedCourse
    /\ enhancedCourse.reportDetails =
          << [score |-> <<80>>, progress |-> 100], [score |-> << >>, progress |-> 100],
             [score |-> <<60>>, progress |-> 50] >>
    /\ enhancedCourse.averageScore = <<80>>

\* what a run of the cascade at time now returns for the page
RunAt(page, now) ==
    LET S == { k \in 1..NumStrategies : Len(StrategyResult(k, page, now)) > 0 }
    IN  IF S = {} THEN << >>
        ELSE StrategyResult(CHOOSE k \in S : \A j \in S : k <= j, page, now)

\* C13: a second run of the extraction on the same page, at whatever time, returns
\* the record list of the first, ids and published timestamps included
C13_ExtractionDeterministic ==
    parseOut.kind = "list" => \A now \in Clocks : RunAt(html, now) = parseOut.items

\* C18: every extracted record has an id, and its URL is the base, /news/ and that id
C18_IdAndCanonicalUrl ==
    parseOut.kind = "list" =>
        \A i \in 1..Len(parseOut.items) :
            /\ parseOut.items[i].id # ""
            /\ parseOut.items[i].url = <<"https://nlobby.nnn.ed.jp", "/news/", parseOut.items[i].id>>

\* the positions of the detection attempts in the log
Attempts == { i \in 1..Len(loginLog) : loginLog[i][1] = "attempt" }

\* C20: login detection makes at most 3 attempts, numbered in order, with one delay of
\* 2000 ms between two of them and none after a success; once the third has failed the
\* tool has answered with an error
C20_BoundedLoginDetection ==
    /\ Cardinality(Attempts) <= 3
    /\ \A i \in Attempts :
          /\ loginLog[i][2] = Cardinality({ j \in Attempts : j <= i })
          /\ loginLog[i][3] = "detected" => \A j \in Attempts : j <= i
          /\ i > 1 => loginLog[i - 1] [1] = "delay" /\ loginLog[i - 1][2] = 2000
          /\ (loginLog[i][2] = 3 /\ loginLog[i][3] # "detected") =>
                /\ i = Len(loginLog)
                /\ loginPc = "done"
                /\ loginReply.kind = "error"
    /\ \A i \in 1..Len(loginLog) :
          loginLog[i][1] = "delay" => i > 1 /\ (i - 1) \in Attempts /\ loginLog[i - 1][3] # "detected"

\* the third attempt has failed and the tool has answered
C20_Witness ==
    /\ Cardinality(Attempts) = 3
    /\ loginLog[Len(loginLog)] = <<"attempt", 3, "timeout">>
    /\ loginPc = "done"
    /\ loginReply.kind = "error"

\* the type that the keywords of a title give
TypeOfTitle(title) ==
    IF Includes[title] \cap {"jugyo", "class"} # {} THEN "class"
    ELSE IF Includes[title] \cap {"mtg", "miitingu", "meeting", "mendan"} # {} THEN "meeting"
    ELSE IF Includes[title] \cap {"shiken", "exam", "tesuto"} # {} THEN "exam"
    ELSE "event"

\* C25: the type of a schedule item is the one the keywords of its title give, class
\* before meeting before exam before event, whether the title came from summary or title
C25_TypeFromTitle ==
    \A i \in 1..Len(calReply.schedule) :
        calReply.schedule[i].type = TypeOfTitle(calReply.schedule[i].title)

\* the callers whose call() starts in this step
Starting == { c \in AllCallers : callLog'[c] # callLog[c] /\ Len(callLog'[c]) = 1
                                 /\ callLog'[c][1].response = NoResponse }

\* C26: the first id is 1; a call that starts takes the value of the counter and moves it
\* on by one, nothing else moves it; the POST attempt of a call carries the id of its GET
\* attempt; no two calls in the logs share an id
C26_OneRequestIdPerCall ==
    /\ requestId = 1
    /\ [][ /\ \A c \in Starting : callLog'[c][1].id = requestId
           /\ requestId' = requestId + Cardinality(Starting) ]_vars
    /\ [](\A c \in AllCallers :
            /\ \A i \in 1..Len(callLog[c]) :
                  callLog[c][i].id = callLog[c][1].id /\ callLog[c][i].id < requestId
            /\ \A d \in AllCallers \ {c} :
                  (callLog[c] # << >> /\ callLog[d] # << >>) => callLog[c][1].id # callLog[d][1].id)

\* a call is at its POST attempt with the id it took, while a later call is in flight
C26_Witness ==
    /\ callPc["a"] = "post"
    /\ callLog["a"][2].id = 1
    /\ callPc["b"] = "get"
    /\ callLog["b"][1].id = 2
    /\ requestId = 3

\* C27: a call whose GET and POST attempts have both failed has thrown, returns no value,
\* and its error is that of the POST attempt
C27_PostErrorRethrown ==
    \A c \in Callers :
        (/\ Len(callLog[c]) = 2
         /\ callLog[c][2].response # NoResponse
         /\ IsFailure(callLog[c][1].response)
         /\ IsFailure(callLog[c][2].response)) =>
            /\ callPc[c] = "threw"
            /\ callOut[c].value = "null"
            /\ callOut[c].error =
                  IF callLog[c][2].response.status = 200 THEN PlainError(TrpcError)
                  ELSE RpcResponseError(callLog[c][2].response.status)

\* a call has thrown the error object of its POST attempt after a server error on its GET
C27_Witness ==
    \E c \in Callers :
        /\ callPc[c] = "threw"
        /\ Len(callLog[c]) = 2
        /\ callLog[c][1].response.status = 500
        /\ callLog[c][2].response.inBandError
        /\ callOut[c].error = PlainError(TrpcError)

\* C30: the POST attempt of a call carries the cookie blob and the bearer token of its
\* GET attempt, whatever setCookies did in between
C30_SameCredentialsInOneCall ==
    \A c \in AllCallers :
        Len(callLog[c]) = 2 =>
            /\ callLog[c][2].headers.cookie = callLog[c][1].headers.cookie
            /\ callLog[c][2].headers.bearer = callLog[c][1].headers.bearer

\* C28: when the set_cookies tool has answered that the cookies have been set, the HTTP
\* client and the RPC client hold the blob it was given, which is not blank
C28_SuccessOnlyWhenApplied ==
    setReply.kind = "success" =>
        /\ setArgs \notin {<< >>, << <<" ", "">> >>}
        /\ httpCookie = setArgs
        /\ allCookies = setArgs

\* setCookies is called in this step of the login tool
LoginSetsCookies == loginLog' # loginLog /\ loginLog'[Len(loginLog')][1] = "setCookies"

EntityKeys(obj) ==
    { obj.kids[i][1] : i \in { j \in 1..Len(obj.kids) : obj.kids[j][2].kids[1][2].t = "obj" } }

\* the position of a key in the priority order of the claim
Priority(key) == CHOOSE i \in 1..Len(priorityKeys) : priorityKeys[i] = key

\* C23: when entity-shaped arrays are under several of the likely container keys, the
\* search returns the records under the one of highest priority, whatever the order of
\* the keys in the object
C23_PriorityKeyWins ==
    (searchOut.done /\ EntityKeys(searchIn) # {} /\ "meta" \notin EntityKeys(searchIn)) =>
        LET best == CHOOSE k \in EntityKeys(searchIn) :
                        \A other \in EntityKeys(searchIn) : Priority(k) <= Priority(other)
        IN  searchOut.found = searchForNewsInData(RecordsUnder(best))

\* a push call whose bracketed argument, or whose remainder after the prefix, is not JSON
MalformedFragment(frag) ==
    \/ frag = Bad
    \/ HasStringPayload(frag) /\ HasPrefix(At(frag, 2)) /\ At(At(frag, 2), 1) = Bad

\* the push calls before the k-th are all malformed (and none is a content marker)
MalformedBefore(push, k) ==
    \A i \in 1..(k - 1) :
        MalformedFragment(push[i]) /\ ~(HasStringPayload(push[i]) /\ IsMarker(At(push[i], 2)))

\* the k-th push call of a detail page holds a news record
DetailBearing(push, k) ==
    /\ HasStringPayload(push[k]) /\ HasPrefix(At(push[k], 2)) /\ ~IsMarker(At(push[k], 2))
    /\ Truthy(searchForNewsDataInObject(At(At(push[k], 2), 1)))

\* C24: malformed push calls are skipped and never end the scan. Detail extraction: a page
\* whose first push calls are malformed and whose next one holds a news record gives what
\* the page without the malformed ones gives, and finds news data. List extraction, run
\* over the same push calls: a push call that holds news after malformed ones only is
\* the one whose records are returned.
C24_MalformedFragmentsSkipped ==
    (detPc \in {"marking", "done"} /\ detOut.kind \in {"detail", "threw"}) =>
        \A k \in 2..Len(detPage) :
            MalformedBefore(detPage, k) =>
                /\ DetailBearing(detPage, k) =>
                      /\ DetailScan(detPage, 1, JNull, << >>).newsData # JNull
                      /\ detOut = getNewsDetail(SubSeq(detPage, k, Len(detPage)), detArgs.newsId)
                /\ \A now \in Clocks :
                      PushCallResult(detPage[k], now).found =>
                          StreamedFragments(detPage, 1, now) = PushCallResult(detPage[k], now).items

C24_Witness ==
    /\ detPc = "done"
    /\ detOut.kind = "detail"
    /\ Len(detPage) = 3
    /\ detPage[1] = Bad
    /\ MalformedFragment(detPage[2]) /\ detPage[2] # Bad
    /\ DetailBearing(detPage, 3)
    /\ PushCallResult(detPage[3], 1).found
    /\ StreamedFragments(detPage, 1, 1) # << >>

\* C21: no step of a diagnostic operation (getCookieStatus, healthCheck, debugConnection,
\* testPageContent) changes the session store, whatever the store holds and whatever the
\* probes and requests meet
C21_DiagnosticsOnlyObserve ==
    [][DiagStep => UNCHANGED <<httpCookie, nextAuthCookies, allCookies>>]_vars

C21_Witness ==
    /\ diagPc = "done"
    /\ diagOp = "healthCheck"
    /\ ~diagOut.healthy
    /\ Len(diagLog) = 7
    /\ requestId = 5
    /\ allCookies # EmptyBlob
    /\ isAuthenticated(nextAuthCookies)

\* the entries of the log that are tests of healthCheck
ProbesRun == SelectSeq(diagLog, LAMBDA e : e[1] = "probe")

\* C22: healthCheck runs its tests in the order of healthCheckTests, goes on only after a
\* test that failed or threw, returns true exactly when the last test run passed, returns
\* false exactly when all five were run and none passed, and returns a boolean in every case
C22_HealthCheckOrder ==
    diagOp = "healthCheck" =>
        /\ Len(ProbesRun) <= Len(healthCheckTests)
        /\ \A i \in 1..Len(ProbesRun) :
              /\ ProbesRun[i][2] = healthCheckTests[i]
              /\ i < Len(ProbesRun) => ProbesRun[i][3] \in {"failed", "threw"}
        /\ diagPc = "probing" =>
              /\ diagStep = Len(ProbesRun) + 1
              /\ \A i \in 1..Len(ProbesRun) : ProbesRun[i][3] # "passed"
        /\ diagPc = "done" =>
              /\ diagOut.kind = "boolean"
              /\ Len(ProbesRun) >= 1
              /\ diagOut.healthy <=> ProbesRun[Len(ProbesRun)][3] = "passed"
              /\ ~diagOut.healthy <=>
                    /\ Len(ProbesRun) = Len(healthCheckTests)
                    /\ \A i \in 1..Len(ProbesRun) : ProbesRun[i][3] \in {"failed", "threw"}

C22_Witness ==
    /\ diagPc = "done"
    /\ diagOp = "healthCheck"
    /\ diagOut.healthy
    /\ Len(ProbesRun) = 4
    /\ ProbesRun[1][3] = "threw"
    /\ ProbesRun[2][3] = "failed"
    /\ ProbesRun[3][3] = "threw"
    /\ ProbesRun[4][3] = "passed"

====
